---- MODULE Spec2Model ----
(***************************************************************************)
(* A model of the finite-volume mesh utilities of tdgl                     *)
(* (tdgl/finite_volume/util.py) and of its screening kernels               *)
(* (tdgl/solver/screening.py).                                             *)
(*                                                                         *)
(* The utilities are pure functions of a triangulation (points, elements)  *)
(* or of the arrays in args.                                               *)
(* Each function is an operator with the name it has in the source; each   *)
(* specification draws the inputs in Init and has one action per function, *)
(* which records the name of the function in op, its result in ret and the *)
(* exception that leaves it ("none" when it returns) in raised.            *)
(* The parallel kernels are also modelled lane by lane (SpecLanes): lanes  *)
(* holds the local variables of each lane, A_induced the output array and  *)
(* writes the stores made to each of its cells.                            *)
(*                                                                         *)
(* Conventions.                                                            *)
(*   - site and triangle indices are 0-based as in numpy; a numpy array is *)
(*     a sequence, so row k (0-based) of an array a is a[k + 1];           *)
(*   - a float is an exact rational <<n, d>> in lowest terms with d > 0,   *)
(*     or one of the non-finite values NaN, Inf that numpy produces on a   *)
(*     division by zero (the sign of an infinity is not tracked);          *)
(*   - a square root is kept exact as the record [sqrt |-> q].             *)
(***************************************************************************)
EXTENDS Integers, Sequences, FiniteSets, TLC

VARIABLES elements, points, boundary, op, ret, raised,
          args, lanes, A_induced, writes, heap, calls

vars == <<elements, points, boundary, op, ret, raised, args, lanes, A_induced, writes,
          heap, calls>>

\* the variables of the mesh, those of a call of a solver kernel, and those of
\* the objects (the objects by identity, and the calls made so far)
mesh == <<elements, points, boundary>>
kernel == <<lanes, A_induced, writes>>
objects == <<heap, calls>>

(***************************************************************************)
(* Bounds of the model.                                                    *)
(***************************************************************************)
\* number of sites of the triangulations of SpecTopology
NumSites == 4
\* largest number of triangles of the triangulations of SpecTopology
MaxTri == 2
\* largest coordinate of the vertices of the single triangles of SpecGeometry
GridMax == 2
\* number of sites of the order parameter of SpecCurrent
NumPsi == 2
\* largest number of edges of SpecCurrent
MaxEdges == 2
\* number of sites and of edge centers of SpecScreening
NumScreenSites == 2
NumEdgeCenters == 2
\* largest number of calls of one caller in SpecPure
MaxCalls == 2
\* largest number of triangles of the triangulations of SpecDual
MaxDualTri == 2
\* largest number of calls of the Parameter of SpecParameter
MaxParamCalls == 3
\* largest number of operations on the Device of SpecDevice
MaxDeviceOps == 3
\* largest first frame and largest number of frames after it in SpecPlot
MaxMinFrame == 2
FrameSpan == 120

Sites == 0 .. (NumSites - 1)

(***************************************************************************)
(* numpy helpers                                                           *)
(***************************************************************************)
Range(s) == {s[k] : k \in DOMAIN s}

\* lexicographic order of two rows of equal length 2 (the order of np.unique)
RowLess(e, f) == e[1] < f[1] \/ (e[1] = f[1] /\ e[2] < f[2])

RECURSIVE SortedRows(_)
\* the rows of the set S as a sequence in increasing lexicographic order
SortedRows(S) ==
    IF S = {} THEN <<>>
    ELSE LET m == CHOOSE m \in S : \A o \in S : o = m \/ RowLess(m, o)
         IN  <<m>> \o SortedRows(S \ {m})

RECURSIVE SortedInts(_)
\* the integers of the set S as an increasing sequence (np.where order)
SortedInts(S) ==
    IF S = {} THEN <<>>
    ELSE LET m == CHOOSE m \in S : \A o \in S : m <= o
         IN  <<m>> \o SortedInts(S \ {m})

(***************************************************************************)
(* Floats as exact rationals                                               *)
(***************************************************************************)
Abs(n) == IF n < 0 THEN -n ELSE n

RECURSIVE Gcd(_, _)
Gcd(a, b) == IF b = 0 THEN a ELSE Gcd(b, a % b)

\* the rational n / d (d # 0) in lowest terms with a positive denominator
Frac(n, d) ==
    LET g == Gcd(Abs(n), Abs(d))
        s == IF d < 0 THEN -1 ELSE 1
    IN  <<(s * n) \div g, (s * d) \div g>>

Rat(n) == <<n, 1>>
Zero == Rat(0)
\* the non-finite values: a zero denominator
NaN == <<0, 0>>
Inf == <<1, 0>>
IsFinite(a) == a[2] # 0

\* a + b, a - b, a * b, a / b with the IEEE rules for the non-finite values
\* that the model can produce (inf - inf and 0 * inf are nan)
FAdd(a, b) ==
    IF a = NaN \/ b = NaN THEN NaN
    ELSE IF a = Inf \/ b = Inf THEN (IF a = b THEN NaN ELSE Inf)
    ELSE Frac(a[1] * b[2] + b[1] * a[2], a[2] * b[2])
FNeg(a) == IF IsFinite(a) THEN <<-a[1], a[2]>> ELSE a
FSub(a, b) == FAdd(a, FNeg(b))
FMul(a, b) ==
    IF a = NaN \/ b = NaN THEN NaN
    ELSE IF a = Inf \/ b = Inf
         THEN (IF a = Zero \/ b = Zero THEN NaN ELSE Inf)
    ELSE Frac(a[1] * b[1], a[2] * b[2])
FDiv(a, b) ==
    IF a = NaN \/ b = NaN THEN NaN
    ELSE IF a = Inf THEN (IF b = Inf THEN NaN ELSE Inf)
    ELSE IF b = Inf THEN Zero
    ELSE IF b = Zero THEN (IF a = Zero THEN NaN ELSE Inf)
    ELSE Frac(a[1] * b[2], a[2] * b[1])
\* a < b of two finite values
FLess(a, b) == a[1] * b[2] < b[1] * a[2]
FSq(a) == FMul(a, a)
\* np.sqrt of a finite value >= 0, kept exact
FSqrt(a) == [sqrt |-> a]

\* the x and y coordinate arrays of an (n, 2) integer point array
XOf(pts) == [i \in DOMAIN pts |-> Rat(pts[i][1])]
YOf(pts) == [i \in DOMAIN pts |-> Rat(pts[i][2])]

\* elements[:, (i, j)]  (i, j are 0-based columns)
Columns(els, i, j) == [t \in DOMAIN els |-> <<els[t][i + 1], els[t][j + 1]>>]

\* np.sort(edges, axis=1)
sort_axis1(rows) ==
    [k \in DOMAIN rows |->
        IF rows[k][1] <= rows[k][2] THEN rows[k] ELSE <<rows[k][2], rows[k][1]>>]

\* np.concatenate([elements[:, (0, 1)], elements[:, (1, 2)], elements[:, (2, 0)]])
concat_edges(els) ==
    Columns(els, 0, 1) \o Columns(els, 1, 2) \o Columns(els, 2, 0)

\* get_edges with the boundary test inverted (counts == 2)
get_edges_counts2(els) ==
    LET rows == sort_axis1(concat_edges(els))
        uniq == SortedRows(Range(rows))
        counts == [k \in DOMAIN uniq |->
                      Cardinality({j \in DOMAIN rows : rows[j] = uniq[k]})]
    IN  [edges |-> uniq, is_boundary |-> [k \in DOMAIN uniq |-> counts[k] = 2]]

\* get_edges without the row sort of line 21
get_edges_nosort(els) ==
    LET rows == concat_edges(els)
        uniq == SortedRows(Range(rows))
        counts == [k \in DOMAIN uniq |->
                      Cardinality({j \in DOMAIN rows : rows[j] = uniq[k]})]
    IN  [edges |-> uniq, is_boundary |-> [k \in DOMAIN uniq |-> counts[k] = 1]]

\* get_edges(elements) -> (edges, is_boundary)
get_edges(els) ==
    LET rows == sort_axis1(concat_edges(els))
        \* np.unique(edges, return_counts=True, axis=0)
        uniq == SortedRows(Range(rows))
        counts == [k \in DOMAIN uniq |->
                      Cardinality({j \in DOMAIN rows : rows[j] = uniq[k]})]
    IN  [edges |-> uniq, is_boundary |-> [k \in DOMAIN uniq |-> counts[k] = 1]]

\* points[elements[:, (i, j)]]: the pairs of end points, shape (n, 2, 2)
PointPairs(pts, els, i, j) ==
    [t \in DOMAIN els |-> <<pts[els[t][i + 1]], pts[els[t][j + 1]]>>]

\* np.linalg.norm(np.diff(edges, axis=1), axis=2): shape (n, 1)
norm_diff(pairs) ==
    [k \in DOMAIN pairs |->
        LET dx == pairs[k][2][1] - pairs[k][1][1]
            dy == pairs[k][2][2] - pairs[k][1][2]
        IN  <<FSqrt(Rat(dx * dx + dy * dy))>>]

\* get_edge_lengths emitting the 3 sides triangle by triangle
get_edge_lengths_by_triangle(pts, els) ==
    LET n == Len(els)
        side(k) == <<(k - 1) % 3, k % 3>>
        pairs == [k \in 1 .. 3 * n |->
                    LET t == ((k - 1) \div 3) + 1
                    IN  <<pts[els[t][side(k)[1] + 1]], pts[els[t][side(k)[2] + 1]]>>]
    IN  norm_diff(pairs)

\* get_edge_lengths(points, elements)
get_edge_lengths(pts, els) ==
    LET edges == PointPairs(pts, els, 0, 1) \o PointPairs(pts, els, 1, 2)
                    \o PointPairs(pts, els, 2, 0)
    IN  norm_diff(edges)

\* get_surrounding_voronoi_polygons looking at column 0 only
get_surrounding_voronoi_polygons_col0(els, num_sites) ==
    [idx \in 0 .. (num_sites - 1) |->
        SortedInts({t - 1 : t \in {u \in DOMAIN els : els[u][1] = idx}})]

\* get_surrounding_voronoi_polygons(elements, num_sites): the dict as a function
get_surrounding_voronoi_polygons(els, num_sites) ==
    [idx \in 0 .. (num_sites - 1) |->
        \* np.where((elements == idx).any(axis=1))[0]
        SortedInts({t - 1 : t \in {u \in DOMAIN els : \E c \in 1 .. 3 : els[u][c] = idx}})]

(***************************************************************************)
(* Dual mesh: circumcenters, convex hulls, cell areas                      *)
(***************************************************************************)
Two == Rat(2)

\* generate_voronoi_vertices without the translation back of line 125
generate_voronoi_vertices_untranslated(x, y, els) ==
    LET ax(t) == x[els[t][1]]
        ay(t) == y[els[t][1]]
        bpx(t) == FSub(x[els[t][2]], ax(t))
        bpy(t) == FSub(y[els[t][2]], ay(t))
        cpx(t) == FSub(x[els[t][3]], ax(t))
        cpy(t) == FSub(y[els[t][3]], ay(t))
        bp2(t) == FAdd(FSq(bpx(t)), FSq(bpy(t)))
        cp2(t) == FAdd(FSq(cpx(t)), FSq(cpy(t)))
        denominator(t) == FMul(Two, FSub(FMul(bpx(t), cpy(t)), FMul(bpy(t), cpx(t))))
        xcp(t) == FDiv(FSub(FMul(cpy(t), bp2(t)), FMul(bpy(t), cp2(t))), denominator(t))
        ycp(t) == FDiv(FSub(FMul(bpx(t), cp2(t)), FMul(cpx(t), bp2(t))), denominator(t))
    IN  <<[t \in DOMAIN els |-> xcp(t)], [t \in DOMAIN els |-> ycp(t)]>>

\* generate_voronoi_vertices(x, y, elements) -> (x_dual, y_dual)
generate_voronoi_vertices(x, y, els) ==
    LET \* a, and b, c in the coordinate system where a is in the origin
        ax(t) == x[els[t][1]]
        ay(t) == y[els[t][1]]
        bpx(t) == FSub(x[els[t][2]], ax(t))
        bpy(t) == FSub(y[els[t][2]], ay(t))
        cpx(t) == FSub(x[els[t][3]], ax(t))
        cpy(t) == FSub(y[els[t][3]], ay(t))
        \* (bp**2).sum(axis=0), (cp**2).sum(axis=0)
        bp2(t) == FAdd(FSq(bpx(t)), FSq(bpy(t)))
        cp2(t) == FAdd(FSq(cpx(t)), FSq(cpy(t)))
        denominator(t) == FMul(Two, FSub(FMul(bpx(t), cpy(t)), FMul(bpy(t), cpx(t))))
        xcp(t) == FDiv(FSub(FMul(cpy(t), bp2(t)), FMul(bpy(t), cp2(t))), denominator(t))
        ycp(t) == FDiv(FSub(FMul(bpx(t), cp2(t)), FMul(cpx(t), bp2(t))), denominator(t))
    IN  <<[t \in DOMAIN els |-> FAdd(xcp(t), ax(t))],
          [t \in DOMAIN els |-> FAdd(ycp(t), ay(t))]>>

\* (q - p) x (r - p) for points with finite coordinates
Cross(p, q, r) ==
    FSub(FMul(FSub(q[1], p[1]), FSub(r[2], p[2])),
         FMul(FSub(q[2], p[2]), FSub(r[1], p[1])))
\* (q - p) . (r - p)
Dot(p, q, r) ==
    FAdd(FMul(FSub(q[1], p[1]), FSub(r[1], p[1])),
         FMul(FSub(q[2], p[2]), FSub(r[2], p[2])))

\* all points of the set P lie on one line (or P has fewer than 3 points)
Collinear(P) == \A p, q, r \in P : Cross(p, q, r) = Zero

\* the directed line from p through q supports P: no point of P is right of it
Supports(P, p, q) == \A r \in P : ~FLess(Cross(p, q, r), Zero)

\* the extreme points of the set P, which is not collinear: p is extreme when a
\* line through p and another point q supports P with p at the end of the side
ExtremePoints(P) ==
    {p \in P : \E q \in P \ {p} :
        /\ Supports(P, p, q)
        /\ \A r \in P : Cross(p, q, r) = Zero => ~FLess(Dot(p, q, r), Zero)}

RECURSIVE SumCross(_)
\* the sum of p x q over the directed edges <<p, q>> of the set E
SumCross(E) ==
    IF E = {} THEN Zero
    ELSE LET e == CHOOSE e \in E : TRUE
         IN  FAdd(FSub(FMul(e[1][1], e[2][2]), FMul(e[2][1], e[1][2])),
                  SumCross(E \ {e}))

\* the area of the convex hull of the set P, which is not collinear: the shoelace
\* sum over the counter-clockwise hull edges
HullArea(P) ==
    LET V == ExtremePoints(P)
        E == {e \in V \X V : e[1] # e[2] /\ Supports(P, e[1], e[2])}
    IN  FDiv(SumCross(E), Two)

\* scipy.spatial.ConvexHull(points) of an (n, 2) array of n >= 1 finite points:
\* Qhull cannot build an initial simplex from fewer than 3 points or from points on one
\* line and raises QhullError; else volume is the area of the hull (2-D) and
\* vertices are the indices of the input points that are its corners, a repeated
\* point being a corner once (the row a repeated corner is reported for is not
\* modelled: the smallest is taken)
ConvexHull(rows) ==
    LET P == Range(rows)
    IN  IF Len(rows) < 3 \/ Collinear(P)
        THEN [error |-> "QhullError", volume |-> Zero, vertices |-> {}]
        ELSE [error |-> "none",
              volume |-> HullArea(P),
              vertices |-> {(CHOOSE k \in DOMAIN rows :
                                rows[k] = p /\ \A j \in DOMAIN rows : rows[j] = p => k <= j) - 1
                            : p \in ExtremePoints(P)}]

\* np.array([x, y]).T
RowsOf(x, y) == [k \in DOMAIN x |-> <<x[k], y[k]>>]

\* get_convex_polygon_area whose except branch reports a non-convex polygon
get_convex_polygon_area_except_false(x, y) ==
    LET hull == ConvexHull(RowsOf(x, y))
    IN  IF hull.error = "QhullError"
        THEN <<Zero, FALSE>>
        ELSE <<hull.volume, Cardinality(hull.vertices) = Len(x)>>

\* get_convex_polygon_area that reports every hull as convex
get_convex_polygon_area_always_convex(x, y) ==
    LET hull == ConvexHull(RowsOf(x, y))
    IN  IF hull.error = "QhullError"
        THEN <<Zero, TRUE>>
        ELSE <<hull.volume, TRUE>>

\* get_convex_polygon_area(x, y) -> (area, is_convex)
get_convex_polygon_area(x, y) ==
    LET hull == ConvexHull(RowsOf(x, y))
    IN  IF hull.error = "QhullError"
        THEN \* except QhullError: all points lie on a line
             <<Zero, TRUE>>
        ELSE <<hull.volume, Cardinality(hull.vertices) = Len(x)>>

\* a[index] for a 0-based index sequence into the array a
Take(a, index) == [k \in DOMAIN index |-> a[index[k] + 1]]

\* compute_surrounding_area(x, y, x_dual, y_dual, boundary, edges,
\* boundary_edge_indices, polygons) -> areas; x, y and the result are functions
\* of the site, the other arrays are sequences
compute_surrounding_area(x, y, x_dual, y_dual, bnd, edges, boundary_edge_indices, polygons) ==
    LET boundary_set == bnd
        boundary_edges == Take(edges, boundary_edge_indices)
        area(i) ==
            LET poly_x == Take(x_dual, polygons[i])
                poly_y == Take(y_dual, polygons[i])
                \* boundary_edges[(boundary_edges == i).any(axis=1)]
                connected_boundary_edges ==
                    SelectSeq(boundary_edges, LAMBDA e : e[1] = i \/ e[2] = i)
                \* x[connected_boundary_edges].mean(axis=1)
                x_mid == [k \in DOMAIN connected_boundary_edges |->
                            FDiv(FAdd(x[connected_boundary_edges[k][1]],
                                      x[connected_boundary_edges[k][2]]), Two)]
                y_mid == [k \in DOMAIN connected_boundary_edges |->
                            FDiv(FAdd(y[connected_boundary_edges[k][1]],
                                      y[connected_boundary_edges[k][2]]), Two)]
                full_x == poly_x \o <<x[i]>> \o x_mid
                full_y == poly_y \o <<y[i]>> \o y_mid
                hull == get_convex_polygon_area(full_x, full_y)
                concave_area == get_convex_polygon_area(<<x[i]>> \o x_mid, <<y[i]>> \o y_mid)[1]
            IN  IF i \notin boundary_set
                THEN get_convex_polygon_area(poly_x, poly_y)[1]
                ELSE IF ~hull[2] THEN FSub(hull[1], concave_area) ELSE hull[1]
    IN  [i \in DOMAIN polygons |-> area(i)]

\* triangle_areas(points, triangles): half the determinant of the rows
\* (p2 - p1), (p0 - p2) of each triangle, a signed area
triangle_areas(pts, triangles) ==
    [t \in DOMAIN triangles |->
        LET xy == [v \in 1 .. 3 |-> pts[triangles[t][v]]]
            \* s = xy[:, [2, 0]] - xy[:, [1, 2]]
            s == <<<<xy[3][1] - xy[2][1], xy[3][2] - xy[2][2]>>,
                   <<xy[1][1] - xy[3][1], xy[1][2] - xy[3][2]>>>>
            a == s[1][1] * s[2][2] - s[1][2] * s[2][1]
        IN  Frac(a, 2)]

\* mass[i, i] += a
AddAt(mass, i, a) == [mass EXCEPT ![<<i, i>>] = FAdd(@, a)]

\* the loop of mass_matrix over the triangles k, k + 1, ... with a variant
\* that adds the three thirds of a triangle to its first vertex
RECURSIVE mass_loop_first_vertex(_, _, _, _)
mass_loop_first_vertex(mass, tri_areas, triangles, k) ==
    IF k > Len(triangles) THEN mass
    ELSE LET a == FDiv(tri_areas[k], Rat(3))
             t == triangles[k]
         IN  mass_loop_first_vertex(AddAt(AddAt(AddAt(mass, t[1], a), t[1], a), t[1], a),
                                    tri_areas, triangles, k + 1)

\* for a, t in zip(tri_areas / 3, triangles): from the k-th triangle on
RECURSIVE mass_loop(_, _, _, _)
mass_loop(mass, tri_areas, triangles, k) ==
    IF k > Len(triangles) THEN mass
    ELSE LET a == FDiv(tri_areas[k], Rat(3))
             t == triangles[k]
         IN  mass_loop(AddAt(AddAt(AddAt(mass, t[1], a), t[2], a), t[3], a),
                       tri_areas, triangles, k + 1)

\* mass_matrix(points, triangles, sparse): the (N, N) matrix mass as a function
\* of the index pair; sparse=True returns the matrix, sparse=False its diagonal
mass_matrix(pts, triangles, sparse) ==
    LET N == Cardinality(DOMAIN pts)
        zeros == [ij \in (0 .. (N - 1)) \X (0 .. (N - 1)) |-> Zero]
        tri_areas == triangle_areas(pts, triangles)
        mass == mass_loop(zeros, tri_areas, triangles, 1)
    IN  IF sparse
        THEN \* mass.tocsc()
             mass
        ELSE \* mass.diagonal()
             [i \in 0 .. (N - 1) |-> mass[<<i, i>>]]

\* a complex number is the pair <<re, im>> of its integer parts
CAdd(a, b) == <<a[1] + b[1], a[2] + b[2]>>
CMul(a, b) == <<a[1] * b[1] - a[2] * b[2], a[1] * b[2] + a[2] * b[1]>>
conjugate(a) == <<a[1], -a[2]>>
imag(a) == a[2]

\* row @ psi: the sum over the sites j < n of row[j] * psi[j]
RECURSIVE RowDot(_, _, _)
RowDot(row, psi, n) ==
    IF n = 0 THEN <<0, 0>>
    ELSE CAdd(RowDot(row, psi, n - 1), CMul(row[n - 1], psi[n - 1]))

\* gradient @ psi for a matrix with one row per edge and one column per site
MatVec(gradient, psi) ==
    [e \in DOMAIN gradient |-> RowDot(gradient[e], psi, Cardinality(DOMAIN psi))]

\* a variant of get_supercurrent that takes psi at the second site of the edge
get_supercurrent_col1(psi, gradient, edges) ==
    LET grad_psi == MatVec(gradient, psi)
    IN  [e \in DOMAIN edges |-> imag(CMul(conjugate(psi[edges[e][2]]), grad_psi[e]))]

\* get_supercurrent(psi, gradient, edges):
\* (psi.conjugate()[edges[:, 0]] * (gradient @ psi)).imag
get_supercurrent(psi, gradient, edges) ==
    LET grad_psi == MatVec(gradient, psi)
    IN  [e \in DOMAIN edges |-> imag(CMul(conjugate(psi[edges[e][1]]), grad_psi[e]))]

(***************************************************************************)
(* Screening kernels (tdgl/solver/screening.py)                            *)
(*                                                                         *)
(* The kernels divide by square roots of sums of squares.  With integer    *)
(* coordinates a float of the kernels is an exact sum of rational          *)
(* multiples of square roots of square-free integers, written as the       *)
(* function that maps each square-free radicand to its non-zero            *)
(* coefficient (the rational part has radicand 1, zero is the empty        *)
(* function), or a non-finite value, written as the function that maps 0   *)
(* to <<0, 0>> (nan), <<1, 0>> (+inf) or <<-1, 0>> (-inf).                   *)
(***************************************************************************)
SZero == <<>>
SNaN == (0 :> <<0, 0>>)
SPosInf == (0 :> <<1, 0>>)
SNegInf == (0 :> <<-1, 0>>)
NonFinite == {SNaN, SPosInf, SNegInf}

\* the largest s whose square divides n > 0
SquarePart(n) ==
    CHOOSE s \in 1 .. n : n % (s * s) = 0 /\ \A r \in (s + 1) .. n : n % (r * r) # 0

\* a variant that multiplies by the distance: c * np.sqrt(d2) = c * s * sqrt(f)
TimesSqrt(c, d2) ==
    IF d2 = 0 \/ c = Zero THEN SZero
    ELSE LET s == SquarePart(d2)
             f == d2 \div (s * s)
         IN  (f :> FMul(c, Rat(s)))

\* c / np.sqrt(d2) for a rational c and an integer d2 >= 0:
\* c / sqrt(s * s * f) = (c / (s * f)) * sqrt(f)
OverSqrt(c, d2) ==
    IF d2 = 0
    THEN IF c[1] > 0 THEN SPosInf ELSE IF c[1] < 0 THEN SNegInf ELSE SNaN
    ELSE LET s == SquarePart(d2)
             f == d2 \div (s * s)
         IN  IF c = Zero THEN SZero ELSE (f :> FDiv(c, Rat(s * f)))

\* float +
SAdd(a, b) ==
    IF a \in NonFinite /\ b \in NonFinite THEN (IF a = b THEN a ELSE SNaN)
    ELSE IF a \in NonFinite THEN a
    ELSE IF b \in NonFinite THEN b
    ELSE LET coeff(x, f) == IF f \in DOMAIN x THEN x[f] ELSE Zero
             sum(f) == FAdd(coeff(a, f), coeff(b, f))
         IN  [f \in {g \in DOMAIN a \cup DOMAIN b : sum(g) # Zero} |-> sum(f)]

\* an array is the record of its shape and its data, a function of the
\* 0-based first index; a row of a 2-D array is a tuple
Rows(a) == a.shape[1]
ndim(a) == Len(a.shape)

\* J_site[j, k] * site_areas[j] / dr with
\* dr = np.sqrt((edge_centers[i, 0] - sites[j, 0]) ** 2
\*              + (edge_centers[i, 1] - sites[j, 1]) ** 2)
Term(J_site, site_areas, sites, edge_centers, i, j, k) ==
    LET dx == edge_centers.data[i][1] - sites.data[j][1]
        dy == edge_centers.data[i][2] - sites.data[j][2]
    IN  OverSqrt(Rat(J_site.data[j][k + 1] * site_areas.data[j]), dx * dx + dy * dy)

\* the loop over the sites j, j + 1, ..., n - 1 that adds the terms to tmp
RECURSIVE Reduce(_, _, _, _, _, _, _, _, _)
Reduce(J_site, site_areas, sites, edge_centers, i, k, j, n, tmp) ==
    IF j >= n THEN tmp
    ELSE Reduce(J_site, site_areas, sites, edge_centers, i, k, j + 1, n,
                SAdd(tmp, Term(J_site, site_areas, sites, edge_centers, i, j, k)))

\* a variant of the asserts without sites.shape == J_site.shape
NumbaAsserts_without_sites(J_site, site_areas, sites, edge_centers) ==
    /\ ndim(J_site) = 2
    /\ J_site.shape[2] = 2
    /\ ndim(edge_centers) = 2
    /\ edge_centers.shape[2] = 2

\* the assert statements of get_A_induced_numba
NumbaAsserts(J_site, site_areas, sites, edge_centers) ==
    /\ ndim(J_site) = 2
    /\ J_site.shape[2] = 2
    /\ sites.shape = J_site.shape
    /\ ndim(edge_centers) = 2
    /\ edge_centers.shape[2] = 2

\* the cells of an array of shape (m, n)
Cells(m, n) == (0 .. (m - 1)) \X (0 .. (n - 1))

\* a variant of get_A_induced_numba that leaves the site areas out
get_A_induced_numba_unweighted(J_site, site_areas, sites, edge_centers) ==
    IF ~NumbaAsserts(J_site, site_areas, sites, edge_centers)
    THEN [raised |-> "AssertionError", out |-> <<>>]
    ELSE [raised |-> "none",
          out |-> [c \in Cells(Rows(edge_centers), sites.shape[2]) |->
                     Reduce(J_site, [site_areas EXCEPT !.data = [j \in DOMAIN @ |-> 1]],
                            sites, edge_centers, c[1], c[2], 0, Rows(J_site), SZero)]]

\* a variant of get_A_induced_numba whose accumulator starts at 1.0
get_A_induced_numba_from_one(J_site, site_areas, sites, edge_centers) ==
    IF ~NumbaAsserts(J_site, site_areas, sites, edge_centers)
    THEN [raised |-> "AssertionError", out |-> <<>>]
    ELSE [raised |-> "none",
          out |-> [c \in Cells(Rows(edge_centers), sites.shape[2]) |->
                     Reduce(J_site, site_areas, sites, edge_centers,
                            c[1], c[2], 0, Rows(J_site), (1 :> <<1, 1>>))]]

\* get_A_induced_numba(J_site, site_areas, sites, edge_centers): the exception
\* it raises and the array out it returns, a function of the cell (i, k)
get_A_induced_numba(J_site, site_areas, sites, edge_centers) ==
    IF ~NumbaAsserts(J_site, site_areas, sites, edge_centers)
    THEN [raised |-> "AssertionError", out |-> <<>>]
    ELSE [raised |-> "none",
          out |-> [c \in Cells(Rows(edge_centers), sites.shape[2]) |->
                     Reduce(J_site, site_areas, sites, edge_centers,
                            c[1], c[2], 0, Rows(J_site), SZero)]]

\* the threads of a launch of the GPU kernel for m edge centers: cupyx.jit.grid(2)
\* with one row and one column of threads beyond the (m, 2) output
LaunchGrid(m) == (0 .. m) \X (0 .. 2)

\* the guard of a thread of get_A_induced_cupy
InRange(J_site, edge_centers, i, k) == i < Rows(edge_centers) /\ k < J_site.shape[2]

\* a variant of the kernel in which every thread stores to row i, column 0
get_A_induced_cupy_col0(J_site, site_areas, sites, edge_centers, A) ==
    LET stores == {c \in LaunchGrid(Rows(edge_centers)) :
                      InRange(J_site, edge_centers, c[1], c[2])}
    IN  [c \in DOMAIN A \cup {<<d[1], 0>> : d \in stores} |->
            IF \E d \in stores : c = <<d[1], 0>>
            THEN LET d == CHOOSE d \in stores : c = <<d[1], 0>>
                 IN  Reduce(J_site, site_areas, sites, edge_centers,
                            d[1], d[2], 0, Rows(sites), SZero)
            ELSE A[c]]

\* get_A_induced_cupy(J_site, site_areas, sites, edge_centers, A_induced): the
\* array A_induced after every thread of the launch has run
get_A_induced_cupy(J_site, site_areas, sites, edge_centers, A) ==
    LET stores == {c \in LaunchGrid(Rows(edge_centers)) :
                      InRange(J_site, edge_centers, c[1], c[2])}
    IN  [c \in DOMAIN A \cup stores |->
            IF c \in stores
            THEN Reduce(J_site, site_areas, sites, edge_centers,
                        c[1], c[2], 0, Rows(sites), SZero)
            ELSE A[c]]

\* np.empty / cupy.empty: an array of the given cells that holds no value yet
Uninit == (-1 :> <<0, 0>>)
empty(cells) == [c \in cells |-> Uninit]

\* the sum of the floats f[x] over the x in S
RECURSIVE SSum(_, _)
SSum(f, S) ==
    IF S = {} THEN SZero
    ELSE LET x == CHOOSE x \in S : TRUE IN SAdd(f[x], SSum(f, S \ {x}))

\* the vectorized backend of the solver: the matrix of the weights
\* site_areas[j] / |edge_centers[i] - sites[j]| contracted with J_site over j
induced_potential_vectorized(J_site, site_areas, sites, edge_centers) ==
    LET inv_rho(i, j) ==
            LET dx == edge_centers.data[i][1] - sites.data[j][1]
                dy == edge_centers.data[i][2] - sites.data[j][2]
            IN  OverSqrt(Rat(site_areas.data[j]), dx * dx + dy * dy)
        times(x, v) ==
            IF v \in NonFinite
            THEN (IF x > 0 THEN v
                  ELSE IF x = 0 \/ v = SNaN THEN SNaN
                  ELSE IF v = SPosInf THEN SNegInf ELSE SPosInf)
            ELSE IF x = 0 THEN SZero
            ELSE [f \in DOMAIN v |-> FMul(Rat(x), v[f])]
    IN  [c \in Cells(Rows(edge_centers), 2) |->
            SSum([j \in DOMAIN sites.data |-> times(J_site.data[j][c[2] + 1], inv_rho(c[1], j))],
                 DOMAIN sites.data)]

\* a variant of the validation that accepts every selection of backends
validate_any(options) == "none"

\* SolverOptions.validate: the exception raised for the options of the solver
validate(options) ==
    IF options.screening_use_numba /\ options.screening_use_jax
    THEN "SolverOptionsError"
    ELSE "none"

\* a variant of the call that conjugates psi in place (np.conjugate(psi, out=psi))
get_supercurrent_effect_inplace(psi, gradient, edges) ==
    [psi |-> [j \in DOMAIN psi |-> conjugate(psi[j])],
     gradient |-> gradient,
     edges |-> edges,
     ret |-> get_supercurrent(psi, gradient, edges)]

\* a call of get_supercurrent: the arrays psi, gradient, edges after the call
\* and the array it returns; psi.conjugate(), gradient @ psi, the product and
\* .imag each make a new array
get_supercurrent_effect(psi, gradient, edges) ==
    [psi |-> psi,
     gradient |-> gradient,
     edges |-> edges,
     ret |-> get_supercurrent(psi, gradient, edges)]

\* a call of get_A_induced_numba: its four arrays after the call, which are
\* only read, and what it raises and returns
get_A_induced_numba_effect(J_site, site_areas, sites, edge_centers) ==
    [arrays |-> [J_site |-> J_site, site_areas |-> site_areas, sites |-> sites,
                 edge_centers |-> edge_centers],
     result |-> get_A_induced_numba(J_site, site_areas, sites, edge_centers)]

(***************************************************************************)
(* get_dual_edge_lengths: the triangles of an edge, looked up by the       *)
(* string of the sorted index pair                                         *)
(***************************************************************************)
\* the decimal digits of the characters of str(n), n >= 0
DigitChars == <<"0", "1", "2", "3", "4", "5", "6", "7", "8", "9">>

RECURSIVE Digits(_)
Digits(n) ==
    IF n < 10 THEN <<DigitChars[n + 1]>>
    ELSE Digits(n \div 10) \o <<DigitChars[(n % 10) + 1]>>

\* str(a) of a 1-D integer array of two entries >= 0, as its sequence of
\* characters: the entries right-justified to the width of the widest one,
\* separated by one blank, in brackets ("[0 1]", "[ 1 10]")
str(a) ==
    LET w == IF Len(Digits(a[1])) > Len(Digits(a[2]))
             THEN Len(Digits(a[1])) ELSE Len(Digits(a[2]))
        pad(n) == [k \in 1 .. (w - Len(Digits(n))) |-> " "] \o Digits(n)
    IN  <<"[">> \o pad(a[1]) \o <<" ">> \o pad(a[2]) \o <<"]">>

\* np.sort of a 1-D array of two entries
sort(a) == IF a[1] <= a[2] THEN a ELSE <<a[2], a[1]>>

\* the key of side idx of an element, without np.sort
edge_key_unsorted(element, idx) == str(<<element[idx[1] + 1], element[idx[2] + 1]>>)

\* str(np.sort(element[idx]))
edge_key(element, idx) == str(sort(<<element[idx[1] + 1], element[idx[2] + 1]>>))

edge_element_indices == <<<<0, 1>>, <<1, 2>>, <<2, 0>>>>

RECURSIVE Filter(_, _)
\* the entries of the sequence s that are in the set S, in order
Filter(s, S) ==
    IF s = <<>> THEN <<>>
    ELSE (IF s[1] \in S THEN <<s[1]>> ELSE <<>>) \o Filter(Tail(s), S)

\* the dict edge_to_element after the loop over the elements: for each key the
\* 0-based triangle indices in the order of their append
edge_to_element(els) ==
    LET \* the steps of the nested loop, in order: step s is side ((s-1) % 3)
        \* of element ((s-1) \div 3)
        steps == [s \in 1 .. 3 * Len(els) |->
                    [i |-> (s - 1) \div 3,
                     key |-> edge_key(els[((s - 1) \div 3) + 1],
                                      edge_element_indices[((s - 1) % 3) + 1])]]
        keys == {steps[s].key : s \in DOMAIN steps}
    IN  [key \in keys |->
            LET hits == Filter(steps, {st \in Range(steps) : st.key = key})
            IN  [n \in DOMAIN hits |-> hits[n].i]]

\* get_dual_edge_lengths(xe, ye, elements, x_dual, y_dual, edges): raises
\* KeyError at the first edge whose string is not a key of the dict
get_dual_edge_lengths(xe, ye, els, x_dual, y_dual, edges) ==
    LET dict == edge_to_element(els)
        length(i) ==
            LET indices == dict[str(edges[i])]
            IN  IF Len(indices) = 1
                THEN \* boundary edges
                     FSqrt(FAdd(FSq(FSub(x_dual[indices[1] + 1], xe[i])),
                                FSq(FSub(y_dual[indices[1] + 1], ye[i]))))
                ELSE \* inner edges
                     FSqrt(FAdd(FSq(FSub(x_dual[indices[1] + 1], x_dual[indices[2] + 1])),
                                FSq(FSub(y_dual[indices[1] + 1], y_dual[indices[2] + 1]))))
    IN  IF \E i \in DOMAIN edges : str(edges[i]) \notin DOMAIN dict
        THEN [raised |-> "KeyError", dual_lengths |-> <<>>]
        ELSE [raised |-> "none", dual_lengths |-> [i \in DOMAIN edges |-> length(i)]]

(***************************************************************************)
(* Device: the objects of a device on the heap.  An object is a record     *)
(* with its class in cls, its identity is its index in heap; a reference   *)
(* is an index, the reference None is 0.                                   *)
(***************************************************************************)
NoRef == 0
\* a missing array (None) and the array v
NoneArray == [none |-> TRUE, v |-> <<>>]
SomeArray(v) == [none |-> FALSE, v |-> v]
\* the name None of a polygon
NoName == "None"

\* the heap after a new object, whose reference is Len(h) + 1
New(h, obj) == Append(h, obj)

\* Polygon(name, points=points, mesh=mesh), Layer(coherence_length=xi, z0=z0)
Polygon(name, pts, msh) == [cls |-> "Polygon", name |-> name, points |-> pts, mesh |-> msh]
Layer(xi, z0) == [cls |-> "Layer", _coherence_length |-> xi, z0 |-> z0]

\* Polygon.copy(), Layer.copy(): a new object with the same field values
Polygon_copy(h, id) == New(h, h[id])
Layer_copy(h, id) == New(h, h[id])

RECURSIVE CopyAll(_, _)
\* [polygon.copy() for polygon in ids]: the heap after the copies, which are
\* the last Len(ids) objects, in order
CopyAll(h, ids) ==
    IF ids = <<>> THEN h ELSE CopyAll(Polygon_copy(h, ids[1]), Tail(ids))

\* the references of the last n objects of the heap, in order
LastRefs(h, n) == [k \in 1 .. n |-> Len(h) - n + k]

\* Polygon.translate(dx, dy, inplace=True)
Polygon_translate(p, dx, dy) ==
    [p EXCEPT !.points = [k \in DOMAIN @ |-> <<@[k][1] + dx, @[k][2] + dy>>]]

\* Polygon.scale(xfact, yfact, origin, inplace=True)
Polygon_scale(p, xfact, yfact, origin) ==
    [p EXCEPT !.points = [k \in DOMAIN @ |->
        <<origin[1] + xfact * (@[k][1] - origin[1]),
          origin[2] + yfact * (@[k][2] - origin[2])>>]]

\* Polygon.rotate(degrees, origin, inplace=True) for a multiple of 90 degrees,
\* counterclockwise
RECURSIVE Quarter(_, _)
Quarter(v, n) == IF n = 0 THEN v ELSE Quarter(<<-v[2], v[1]>>, n - 1)
Polygon_rotate(p, degrees, origin) ==
    [p EXCEPT !.points = [k \in DOMAIN @ |->
        LET r == Quarter(<<@[k][1] - origin[1], @[k][2] - origin[2]>>,
                         ((degrees \div 90) % 4))
        IN  <<origin[1] + r[1], origin[2] + r[2]>>]]

\* Polygon.contains_points(points, index=True) of a convex polygon: the 0-based
\* indices of the rows of points inside the polygon or on its boundary
contains_points(p, pts) ==
    LET n == Len(p.points)
        corner(k) == <<Rat(p.points[k][1]), Rat(p.points[k][2])>>
        next(k) == corner((k % n) + 1)
        inside(q) == \/ \A k \in 1 .. n : ~FLess(Cross(corner(k), next(k), q), Zero)
                     \/ \A k \in 1 .. n : ~FLess(Zero, Cross(corner(k), next(k), q))
    IN  SortedInts({k - 1 : k \in {j \in DOMAIN pts : inside(pts[j])}})

\* Mesh.from_triangulation(x, y, elements, input_edge=..., output_edge=...,
\* voltage_points=...): the fields of the new Mesh that the device reads
Mesh_from_triangulation(x, y, els, input_edge, output_edge, voltage_points) ==
    [cls |-> "Mesh", x |-> x, y |-> y, elements |-> els,
     input_edge |-> input_edge, output_edge |-> output_edge,
     voltage_points |-> voltage_points]

\* mesh.generate_mesh(poly_points, hole_coords, max_edge_length, boundary): the
\* coarsest mesh of a convex film, its corners joined as a fan
generate_mesh(poly_points) ==
    [points |-> [k \in DOMAIN poly_points |->
                    <<Rat(poly_points[k][1]), Rat(poly_points[k][2])>>],
     triangles |-> [t \in 1 .. (Len(poly_points) - 2) |-> <<0, t, t + 1>>]]

\* Device.__init__(name, layer=..., film=..., ...) on the heap h: the heap
\* after the call, the reference of the new device (None when it raised) and
\* the exception.  voltage_points is None or a sequence of rows.
Device_init(h, name, layer, film, holes, abstract_regions, source_terminal, drain_terminal, voltage_points) ==
    LET bad_shape == /\ ~voltage_points.none
                     /\ ~(/\ Len(voltage_points.v) = 2
                          /\ \A k \in 1 .. 2 : Len(voltage_points.v[k]) = 2)
        named(p, default) == [p EXCEPT !.mesh = FALSE,
                                       !.name = IF @ = NoName THEN default ELSE @]
        h1 == IF source_terminal = NoRef THEN h
              ELSE [h EXCEPT ![source_terminal] = named(@, "source"),
                             ![drain_terminal] = named(@, "drain")]
        device == [cls |-> "Device", name |-> name, layer |-> layer, film |-> film,
                   holes |-> holes, abstract_regions |-> abstract_regions,
                   source_terminal |-> source_terminal,
                   drain_terminal |-> drain_terminal,
                   voltage_points |-> voltage_points,
                   _length_units |-> "um", mesh |-> NoRef]
    IN  IF bad_shape THEN [heap |-> h, ref |-> NoRef, raised |-> "ValueError"]
        ELSE IF source_terminal # NoRef /\ drain_terminal = NoRef
        THEN \* terminal.mesh = False on None
             [heap |-> [h EXCEPT ![source_terminal].mesh = FALSE],
              ref |-> NoRef, raised |-> "AttributeError"]
        ELSE [heap |-> New(h1, device), ref |-> Len(h1) + 1, raised |-> "none"]

\* Device.terminals, Device.polygons: sequences of references
terminals(h, self) ==
    IF h[self].source_terminal = NoRef THEN <<>>
    ELSE <<h[self].source_terminal, h[self].drain_terminal>>
polygons(h, self) ==
    terminals(h, self) \o <<h[self].film>> \o h[self].holes \o h[self].abstract_regions

\* Device.coherence_length
coherence_length(h, self) == h[h[self].layer]._coherence_length

\* Device.points: None without a mesh, else the rows coherence_length * (x, y)
Device_points(h, self) ==
    IF h[self].mesh = NoRef THEN NoneArray
    ELSE LET msh == h[h[self].mesh]
             xi == Rat(coherence_length(h, self))
         IN  SomeArray([k \in DOMAIN msh.x |-> <<FMul(xi, msh.x[k]), FMul(xi, msh.y[k])>>])

\* Device.triangles
Device_triangles(h, self) ==
    IF h[self].mesh = NoRef THEN NoneArray ELSE SomeArray(h[h[self].mesh].elements)

RECURSIVE Unique(_)
\* points[np.sort(ix)] for _, ix = np.unique(points, return_index=True, axis=0):
\* the rows without the repetitions of an earlier row
Unique(rows) ==
    IF rows = <<>> THEN <<>>
    ELSE LET front == Unique(SubSeq(rows, 1, Len(rows) - 1))
             last == rows[Len(rows)]
         IN  IF \E k \in 1 .. (Len(rows) - 1) : rows[k] = last THEN front
             ELSE Append(front, last)

RECURSIVE Concat(_)
Concat(ss) == IF ss = <<>> THEN <<>> ELSE ss[1] \o Concat(Tail(ss))

\* Device.poly_points
poly_points(h, self) ==
    Unique(h[h[self].film].points
           \o Concat([k \in DOMAIN h[self].abstract_regions |->
                        IF h[h[self].abstract_regions[k]].mesh
                        THEN h[h[self].abstract_regions[k]].points ELSE <<>>]))

\* np.argmin(np.linalg.norm(points - xy, axis=1)): the 0-based index of the
\* first row of points nearest to xy
argmin_norm(pts, xy) ==
    LET d2(k) == FAdd(FSq(FSub(pts[k][1], Rat(xy[1]))), FSq(FSub(pts[k][2], Rat(xy[2]))))
    IN  (CHOOSE k \in DOMAIN pts :
            /\ \A j \in DOMAIN pts : ~FLess(d2(j), d2(k))
            /\ \A j \in DOMAIN pts : j < k => FLess(d2(k), d2(j))) - 1

\* Device._create_dimensionless_mesh without the check of a drain terminal
\* that has no source terminal
_create_dimensionless_mesh_drain_unchecked(h, self, pts, triangles) ==
    LET dev == h[self]
        xi == Rat(coherence_length(h, self))
        with_terminals == dev.source_terminal # NoRef
        input_edge == IF with_terminals
                      THEN SomeArray(contains_points(h[dev.source_terminal], pts))
                      ELSE NoneArray
        output_edge == IF with_terminals
                       THEN SomeArray(contains_points(h[dev.drain_terminal], pts))
                       ELSE NoneArray
        voltage_points ==
            IF dev.voltage_points.none THEN NoneArray
            ELSE SomeArray([k \in DOMAIN dev.voltage_points.v |->
                              argmin_norm(pts, dev.voltage_points.v[k])])
    IN  IF dev.source_terminal # NoRef /\ dev.drain_terminal = NoRef
        THEN [raised |-> "ValueError", mesh |-> <<>>]
        ELSE [raised |-> "none",
              mesh |-> Mesh_from_triangulation(
                           [k \in DOMAIN pts |-> FDiv(pts[k][1], xi)],
                           [k \in DOMAIN pts |-> FDiv(pts[k][2], xi)],
                           triangles, input_edge, output_edge, voltage_points)]

\* Device._create_dimensionless_mesh(points, triangles): the exception, or the
\* new Mesh
_create_dimensionless_mesh(h, self, pts, triangles) ==
    LET dev == h[self]
        xi == Rat(coherence_length(h, self))
        with_terminals == dev.source_terminal # NoRef
        input_edge == IF with_terminals
                      THEN SomeArray(contains_points(h[dev.source_terminal], pts))
                      ELSE NoneArray
        output_edge == IF with_terminals
                       THEN SomeArray(contains_points(h[dev.drain_terminal], pts))
                       ELSE NoneArray
        voltage_points ==
            IF dev.voltage_points.none THEN NoneArray
            ELSE SomeArray([k \in DOMAIN dev.voltage_points.v |->
                              argmin_norm(pts, dev.voltage_points.v[k])])
    IN  IF dev.source_terminal = NoRef /\ dev.drain_terminal # NoRef
        THEN [raised |-> "ValueError", mesh |-> <<>>]
        ELSE IF dev.source_terminal # NoRef /\ dev.drain_terminal = NoRef
        THEN [raised |-> "ValueError", mesh |-> <<>>]
        ELSE [raised |-> "none",
              mesh |-> Mesh_from_triangulation(
                           [k \in DOMAIN pts |-> FDiv(pts[k][1], xi)],
                           [k \in DOMAIN pts |-> FDiv(pts[k][2], xi)],
                           triangles, input_edge, output_edge, voltage_points)]

\* the heap h with the mesh m as a new object that the device self refers to
SetMesh(h, self, m) == [New(h, m) EXCEPT ![self].mesh = Len(h) + 1]

\* Device.make_mesh(): self.mesh of the generated points and triangles
make_mesh(h, self) ==
    LET g == generate_mesh(poly_points(h, self))
        r == _create_dimensionless_mesh(h, self, g.points, g.triangles)
    IN  IF r.raised # "none" THEN [heap |-> h, ret |-> NoRef, raised |-> r.raised]
        ELSE [heap |-> SetMesh(h, self, r.mesh), ret |-> NoRef, raised |-> "none"]

\* the coherence_length setter reading the points after the assignment of the
\* new coherence length
set_coherence_length_points_after(h, self, value) ==
    LET h1 == [h EXCEPT ![h[self].layer]._coherence_length = value]
    IN  IF h[self].mesh = NoRef THEN [heap |-> h1, ret |-> NoRef, raised |-> "none"]
        ELSE LET r == _create_dimensionless_mesh(h1, self, Device_points(h1, self).v,
                                                 Device_triangles(h1, self).v)
             IN  IF r.raised # "none" THEN [heap |-> h1, ret |-> NoRef, raised |-> r.raised]
                 ELSE [heap |-> SetMesh(h1, self, r.mesh), ret |-> NoRef, raised |-> "none"]

\* device.coherence_length = value
set_coherence_length(h, self, value) ==
    LET h1 == [h EXCEPT ![h[self].layer]._coherence_length = value]
    IN  IF h[self].mesh = NoRef THEN [heap |-> h1, ret |-> NoRef, raised |-> "none"]
        ELSE LET \* points in length_units and triangles, read before the assignment
                 pts == Device_points(h, self).v
                 triangles == Device_triangles(h, self).v
                 r == _create_dimensionless_mesh(h1, self, pts, triangles)
             IN  IF r.raised # "none" THEN [heap |-> h1, ret |-> NoRef, raised |-> r.raised]
                 ELSE [heap |-> SetMesh(h1, self, r.mesh), ret |-> NoRef, raised |-> "none"]

\* Device.copy() handing the objects of self to the new device
copy_shared(h, self) ==
    LET dev == h[self]
        r == Device_init(h, dev.name, dev.layer, dev.film, dev.holes, dev.abstract_regions,
                         IF dev.source_terminal = NoRef THEN NoRef ELSE dev.source_terminal,
                         IF dev.source_terminal = NoRef THEN NoRef ELSE dev.drain_terminal,
                         dev.voltage_points)
    IN  [heap |-> r.heap, ret |-> r.ref, raised |-> r.raised]

\* Device.copy(): the new device of copies of the polygons and of the layer
copy(h, self) ==
    LET dev == h[self]
        h1 == CopyAll(h, dev.holes)
        holes == LastRefs(h1, Len(dev.holes))
        h2 == CopyAll(h1, dev.abstract_regions)
        abstract_regions == LastRefs(h2, Len(dev.abstract_regions))
        with_terminals == dev.source_terminal # NoRef
        h3 == IF with_terminals
              THEN Polygon_copy(Polygon_copy(h2, dev.source_terminal), dev.drain_terminal)
              ELSE h2
        source == IF with_terminals THEN Len(h2) + 1 ELSE NoRef
        drain == IF with_terminals THEN Len(h2) + 2 ELSE NoRef
        h4 == Layer_copy(h3, dev.layer)
        h5 == Polygon_copy(h4, dev.film)
        r == Device_init(h5, dev.name, Len(h3) + 1, Len(h4) + 1, holes, abstract_regions,
                         source, drain, dev.voltage_points)
    IN  [heap |-> r.heap, ret |-> r.ref, raised |-> r.raised]

\* the heap with the polygons of the device replaced by moved[id], the polygon
\* h[id] after the call of its method
OnPolygons(h, device, moved) ==
    SubSeq([id \in DOMAIN h |-> IF id \in DOMAIN moved THEN moved[id] ELSE h[id]], 1, Len(h))

\* an origin that is a tuple of two numbers, and one that is not
Origin(x, y) == [valid |-> TRUE, v |-> <<x, y>>]
BadOrigin == [valid |-> FALSE, v |-> <<>>]

\* Device.scale(xfact, yfact, origin)
scale(h, self, xfact, yfact, origin) ==
    IF ~origin.valid THEN [heap |-> h, ret |-> NoRef, raised |-> "TypeError"]
    ELSE LET c == copy(h, self)
             moved == [id \in Range(polygons(c.heap, c.ret)) |->
                         Polygon_scale(c.heap[id], xfact, yfact, origin.v)]
         IN  [heap |-> OnPolygons(c.heap, c.ret, moved), ret |-> c.ret, raised |-> "none"]

\* Device.rotate(degrees, origin)
rotate(h, self, degrees, origin) ==
    IF ~origin.valid THEN [heap |-> h, ret |-> NoRef, raised |-> "TypeError"]
    ELSE LET c == copy(h, self)
             moved == [id \in Range(polygons(c.heap, c.ret)) |->
                         Polygon_rotate(c.heap[id], degrees, origin.v)]
         IN  [heap |-> OnPolygons(c.heap, c.ret, moved), ret |-> c.ret, raised |-> "none"]

\* Device.mirror_layer(about_z)
mirror_layer(h, self, about_z) ==
    LET c == copy(h, self)
    IN  [heap |-> [c.heap EXCEPT ![c.heap[c.ret].layer].z0 = about_z - @],
         ret |-> c.ret, raised |-> "none"]

\* Device.translate(dx, dy, dz, inplace)
translate(h, self, dx, dy, dz, inplace) ==
    LET c == IF inplace THEN [heap |-> h, ret |-> self] ELSE copy(h, self)
        device == c.ret
        moved == [id \in Range(polygons(c.heap, device)) |->
                    Polygon_translate(c.heap[id], dx, dy)]
        h1 == OnPolygons(c.heap, device, moved)
        shift(h2) == IF dz # 0 THEN [h2 EXCEPT ![h2[device].layer].z0 = @ + dz] ELSE h2
    IN  IF h1[device].mesh = NoRef
        THEN [heap |-> shift(h1), ret |-> device, raised |-> "none"]
        ELSE LET pts == [k \in DOMAIN Device_points(h1, device).v |->
                            <<FAdd(Device_points(h1, device).v[k][1], Rat(dx)),
                              FAdd(Device_points(h1, device).v[k][2], Rat(dy))>>]
                 r == _create_dimensionless_mesh(h1, device, pts,
                                                 Device_triangles(h1, device).v)
             IN  IF r.raised # "none"
                 THEN [heap |-> h1, ret |-> NoRef, raised |-> r.raised]
                 ELSE [heap |-> shift(SetMesh(h1, device, r.mesh)), ret |-> device,
                       raised |-> "none"]

\* the end of the with-block of Device.translation that translates back only
\* when the body returned
translation_exit_on_return(h, self, dx, dy, dz, exc) ==
    IF exc THEN [heap |-> h, ret |-> NoRef, raised |-> "none"]
    ELSE translate(h, self, -dx, -dy, -dz, TRUE)

\* Device.translation(dx, dy, dz): the start of the with-block
translation_enter(h, self, dx, dy, dz) == translate(h, self, dx, dy, dz, TRUE)

\* Device.translation(dx, dy, dz): the finally clause, at the end of the
\* with-block, whether the body raised (exc) or not
translation_exit(h, self, dx, dy, dz, exc) == translate(h, self, -dx, -dy, -dz, TRUE)

(***************************************************************************)
(* SpecTopology: the functions of the triangle array alone.                *)
(***************************************************************************)
\* a triangle: 3 distinct site indices, in any vertex order
Triangles == {t \in Sites \X Sites \X Sites : t[1] # t[2] /\ t[2] # t[3] /\ t[1] # t[3]}

\* the arrays of n triangles
TriangleArrays(n) == [1 .. n -> Triangles]

\* site i of the fixed layout of SpecTopology: points of a parabola, no three
\* of them collinear
SitePos(i) == <<i, i * i>>

\* the arrays of MaxTri + 1 triangles that all have the side (0, 1) as their first
\* side, in either direction: a non-manifold fan around one edge
Fans == [1 .. (MaxTri + 1) -> {t \in Triangles : {t[1], t[2]} = {0, 1}}]

InitTopology ==
    /\ \/ \E n \in 0 .. MaxTri : elements \in TriangleArrays(n)
       \/ elements \in Fans
    /\ points = [i \in Sites |-> SitePos(i)]
    /\ boundary = {}
    /\ args = <<>>
    /\ lanes = <<>>
    /\ A_induced = <<>>
    /\ writes = <<>>
    /\ heap = <<>>
    /\ calls = <<>>
    /\ op = "input"
    /\ ret = <<>>
    /\ raised = "none"

GetEdges ==
    /\ op = "input"
    /\ op' = "get_edges"
    /\ ret' = get_edges(elements)
    /\ raised' = "none"
    /\ UNCHANGED <<objects, elements, points, boundary, args, kernel>>

GetEdgeLengths ==
    /\ op = "input"
    /\ op' = "get_edge_lengths"
    /\ ret' = get_edge_lengths(points, elements)
    /\ raised' = "none"
    /\ UNCHANGED <<objects, elements, points, boundary, args, kernel>>

GetSurroundingVoronoiPolygons ==
    /\ op = "input"
    /\ op' = "get_surrounding_voronoi_polygons"
    /\ ret' = get_surrounding_voronoi_polygons(elements, Cardinality(DOMAIN points))
    /\ raised' = "none"
    /\ UNCHANGED <<objects, elements, points, boundary, args, kernel>>

NextTopology == GetEdges \/ GetEdgeLengths \/ GetSurroundingVoronoiPolygons

SpecTopology == InitTopology /\ [][NextTopology]_vars

(***************************************************************************)
(* SpecGeometry: the functions of the dual mesh.                           *)
(***************************************************************************)
\* The arguments that the mesh builder derives from get_edges for
\* compute_surrounding_area: the indices of the boundary edges and the sites on
\* them.
boundary_edge_indices_of(els) ==
    LET e == get_edges(els)
    IN  SortedInts({k - 1 : k \in {j \in DOMAIN e.is_boundary : e.is_boundary[j]}})
boundary_sites_of(els) ==
    LET e == get_edges(els)
    IN  UNION {Range(e.edges[k]) : k \in {j \in DOMAIN e.is_boundary : e.is_boundary[j]}}

UnitSquare == <<<<0, 1, 2>>, <<0, 2, 3>>>>

Seq0(s) == [i \in 0 .. (Len(s) - 1) |-> s[i + 1]]

\* Closed triangulations without holes, written with all triangles
\* counter-clockwise.
\* the unit square split into 2 triangles
UnitSquareMesh ==
    [points |-> Seq0(<<<<0, 0>>, <<1, 0>>, <<1, 1>>, <<0, 1>>>>),
     elements |-> UnitSquare]
\* a square of side 2 split into 4 triangles around its centre
CentredSquareMesh ==
    [points |-> Seq0(<<<<0, 0>>, <<2, 0>>, <<2, 2>>, <<0, 2>>, <<1, 1>>>>),
     elements |-> <<<<0, 1, 4>>, <<1, 2, 4>>, <<2, 3, 4>>, <<3, 0, 4>>>>]
\* a strip of 3 acute triangles; site 1 lies on a straight part of the boundary
StripMesh ==
    [points |-> Seq0(<<<<0, 0>>, <<2, 0>>, <<4, 0>>, <<1, 2>>, <<3, 2>>>>),
     elements |-> <<<<0, 1, 3>>, <<1, 4, 3>>, <<1, 2, 4>>>>]
\* a hexagon of 6 acute triangles around an interior site
HexagonMesh ==
    [points |-> Seq0(<<<<0, 0>>, <<4, 0>>, <<2, 3>>, <<-2, 3>>, <<-4, 0>>,
                       <<-2, -3>>, <<2, -3>>>>),
     elements |-> <<<<0, 1, 2>>, <<0, 2, 3>>, <<0, 3, 4>>, <<0, 4, 5>>,
                    <<0, 5, 6>>, <<0, 6, 1>>>>]
Meshes == {UnitSquareMesh, CentredSquareMesh, StripMesh, HexagonMesh}

\* the rotations of the vertex order of a triangle, which keep its orientation
VertexRotations == {<<1, 2, 3>>, <<2, 3, 1>>, <<3, 1, 2>>}
\* every vertex order of a triangle: the rotations and the 3 orders that reverse
\* its orientation
VertexOrders == VertexRotations \cup {<<1, 3, 2>>, <<3, 2, 1>>, <<2, 1, 3>>}
Reordered(els, r) == [t \in DOMAIN els |-> <<els[t][r[1]], els[t][r[2]], els[t][r[3]]>>]

Grid == 0 .. GridMax

InitGeometry ==
    /\ \/ \* one triangle with its vertices anywhere on the grid
          /\ points \in [0 .. 2 -> Grid \X Grid]
          /\ elements = <<<<0, 1, 2>>>>
       \/ \E m \in Meshes, r \in VertexRotations :
              /\ points = m.points
              /\ elements = Reordered(m.elements, r)
    /\ boundary = {}
    /\ args = <<>>
    /\ lanes = <<>>
    /\ A_induced = <<>>
    /\ writes = <<>>
    /\ heap = <<>>
    /\ calls = <<>>
    /\ op = "input"
    /\ ret = <<>>
    /\ raised = "none"

GenerateVoronoiVertices ==
    /\ op = "input"
    /\ op' = "generate_voronoi_vertices"
    /\ ret' = generate_voronoi_vertices(XOf(points), YOf(points), elements)
    /\ raised' = "none"
    /\ UNCHANGED <<objects, elements, points, boundary, args, kernel>>

\* the dual mesh of the input has finite coordinates only
FiniteDual ==
    LET dual == generate_voronoi_vertices(XOf(points), YOf(points), elements)
    IN  \A t \in DOMAIN elements : IsFinite(dual[1][t]) /\ IsFinite(dual[2][t])

\* the boundary arrays passed to compute_surrounding_area: the boundary sites of
\* the mesh builder, no site, every site
BoundaryArrays == {boundary_sites_of(elements), {}, DOMAIN points}

\* compute_surrounding_area on the dual mesh, edges and polygons of the input.
\* The call is modelled for finite dual vertices: what scipy does with NaN or
\* infinite points is outside the source.
ComputeSurroundingArea ==
    /\ op = "input"
    /\ FiniteDual
    /\ op' = "compute_surrounding_area"
    /\ boundary' \in BoundaryArrays
    /\ LET dual == generate_voronoi_vertices(XOf(points), YOf(points), elements)
       IN  ret' = compute_surrounding_area(
                      XOf(points), YOf(points), dual[1], dual[2], boundary',
                      get_edges(elements).edges, boundary_edge_indices_of(elements),
                      get_surrounding_voronoi_polygons(elements, Cardinality(DOMAIN points)))
    /\ raised' = "none"
    /\ UNCHANGED <<objects, elements, points, args, kernel>>

\* get_convex_polygon_area on the first n points of the input
GetConvexPolygonArea ==
    /\ op = "input"
    /\ \E n \in 1 .. Cardinality(DOMAIN points) :
          LET x == [k \in 1 .. n |-> Rat(points[k - 1][1])]
              y == [k \in 1 .. n |-> Rat(points[k - 1][2])]
          IN  ret' = [x |-> x, y |-> y, value |-> get_convex_polygon_area(x, y)]
    /\ op' = "get_convex_polygon_area"
    /\ raised' = "none"
    /\ UNCHANGED <<objects, elements, points, boundary, args, kernel>>

NextGeometry ==
    \/ GenerateVoronoiVertices
    \/ ComputeSurroundingArea
    \/ GetConvexPolygonArea

SpecGeometry == InitGeometry /\ [][NextGeometry]_vars

(***************************************************************************)
(* SpecMass: mass_matrix on triangles in every vertex order.               *)
(***************************************************************************)
InitMass ==
    /\ \/ \* one triangle with its vertices anywhere on the grid
          /\ points \in [0 .. 2 -> Grid \X Grid]
          /\ elements = <<<<0, 1, 2>>>>
       \/ \E m \in Meshes, r \in VertexOrders :
              /\ points = m.points
              /\ elements = Reordered(m.elements, r)
    /\ boundary = {}
    /\ args = <<>>
    /\ lanes = <<>>
    /\ A_induced = <<>>
    /\ writes = <<>>
    /\ heap = <<>>
    /\ calls = <<>>
    /\ op = "input"
    /\ ret = <<>>
    /\ raised = "none"

\* mass_matrix on the points and triangles of the input, dense or sparse
MassMatrix ==
    /\ op = "input"
    /\ \E sparse \in BOOLEAN :
          ret' = [sparse |-> sparse, value |-> mass_matrix(points, elements, sparse)]
    /\ op' = "mass_matrix"
    /\ raised' = "none"
    /\ UNCHANGED <<objects, elements, points, boundary, args, kernel>>

NextMass == MassMatrix

SpecMass == InitMass /\ [][NextMass]_vars

(***************************************************************************)
(* SpecCurrent: get_supercurrent on an order parameter and the covariant   *)
(* gradient of a list of edges.                                            *)
(***************************************************************************)
PsiSites == 0 .. (NumPsi - 1)
\* values of the order parameter
PsiValues == {<<0, 0>>, <<1, 0>>, <<0, 1>>, <<1, -1>>}
\* weight (the inverse of the edge length) and link variable (a phase) of an edge
Links == {[w |-> 1, u |-> <<1, 0>>], [w |-> 2, u |-> <<0, 1>>]}
\* an edge (a, b) between two sites with its weight w and its link variable u
WeightedEdges ==
    {[a |-> ab[1], b |-> ab[2], w |-> l.w, u |-> l.u] :
        ab \in {p \in PsiSites \X PsiSites : p[1] # p[2]}, l \in Links}
\* the row of the covariant gradient for a weighted edge:
\* (grad psi)[e] = w * (u * psi[b] - psi[a])
GradientRow(we) ==
    [j \in PsiSites |-> IF j = we.b THEN CMul(<<we.w, 0>>, we.u)
                        ELSE IF j = we.a THEN <<-we.w, 0>>
                        ELSE <<0, 0>>]

InitCurrent ==
    /\ \E n \in 0 .. MaxEdges :
          \E wes \in [1 .. n -> WeightedEdges], psi \in [PsiSites -> PsiValues] :
              args = [psi |-> psi,
                      gradient |-> [e \in 1 .. n |-> GradientRow(wes[e])],
                      edges |-> [e \in 1 .. n |-> <<wes[e].a, wes[e].b>>]]
    /\ elements = <<>>
    /\ points = <<>>
    /\ boundary = {}
    /\ lanes = <<>>
    /\ A_induced = <<>>
    /\ writes = <<>>
    /\ heap = <<>>
    /\ calls = <<>>
    /\ op = "input"
    /\ ret = <<>>
    /\ raised = "none"

GetSupercurrent ==
    /\ op = "input"
    /\ op' = "get_supercurrent"
    /\ ret' = get_supercurrent(args.psi, args.gradient, args.edges)
    /\ raised' = "none"
    /\ UNCHANGED <<objects, mesh, args, kernel>>

NextCurrent == GetSupercurrent

SpecCurrent == InitCurrent /\ [][NextCurrent]_vars

(***************************************************************************)
(* SpecScreening: one evaluation of the induced vector potential by the    *)
(* backend that the options select.                                        *)
(***************************************************************************)
ScreenSites == 0 .. (NumScreenSites - 1)
EdgeCenters == 0 .. (NumEdgeCenters - 1)
\* the position and the area of site j
ScreenSitePos(j) == <<2 * j, j * j>>
ScreenSiteArea(j) == j + 1
\* the sheet current at a site
JRows == {<<0, 0>>, <<1, 0>>, <<1, -2>>}
\* the positions of an edge center; the first one is the position of site 0
EdgeCenterPoints == {<<0, 0>>, <<1, 0>>, <<0, 2>>}
Options == [screening_use_numba : BOOLEAN, screening_use_jax : BOOLEAN]

Array1(n, data) == [shape |-> <<n>>, data |-> data]
Array2(n, m, data) == [shape |-> <<n, m>>, data |-> data]

\* the arrays of a mesh of NumScreenSites sites and NumEdgeCenters edges
ScreeningArrays(J, centers) ==
    [J_site |-> Array2(NumScreenSites, 2, J),
     site_areas |-> Array1(NumScreenSites, [j \in ScreenSites |-> ScreenSiteArea(j)]),
     sites |-> Array2(NumScreenSites, 2, [j \in ScreenSites |-> ScreenSitePos(j)]),
     edge_centers |-> Array2(NumEdgeCenters, 2, centers)]

InitScreening ==
    /\ \E J \in [ScreenSites -> JRows], centers \in [EdgeCenters -> EdgeCenterPoints],
          options \in Options :
              args = [arrays |-> ScreeningArrays(J, centers), options |-> options]
    /\ elements = <<>>
    /\ points = <<>>
    /\ boundary = {}
    /\ lanes = <<>>
    /\ A_induced = <<>>
    /\ writes = <<>>
    /\ heap = <<>>
    /\ calls = <<>>
    /\ op = "input"
    /\ ret = <<>>
    /\ raised = "none"

\* SolverOptions.validate(), called before the solver starts
Validate ==
    /\ op = "input"
    /\ op' = "validate"
    /\ raised' = validate(args.options)
    /\ UNCHANGED <<objects, mesh, args, kernel, ret>>

\* the edge centers that lie on a site
Coincident(a) ==
    {i \in DOMAIN a.edge_centers.data :
        \E j \in DOMAIN a.sites.data : a.edge_centers.data[i] = a.sites.data[j]}

\* The numba backend.  fastmath=True lets the compiler assume that no
\* operand or result is nan or inf, so the value of a cell whose sum divides
\* by zero is undefined: any non-finite value stands for it.
GetAInducedNumba ==
    /\ op = "validate" /\ raised = "none"
    /\ args.options.screening_use_numba
    /\ LET a == args.arrays
           r == get_A_induced_numba(a.J_site, a.site_areas, a.sites, a.edge_centers)
           undefined == {c \in DOMAIN r.out : c[1] \in Coincident(a)}
       IN  /\ raised' = r.raised
           /\ \E u \in [undefined -> NonFinite] :
                 ret' = [c \in DOMAIN r.out |-> IF c \in undefined THEN u[c] ELSE r.out[c]]
    /\ op' = "get_A_induced_numba"
    /\ UNCHANGED <<objects, mesh, args, kernel>>

\* The GPU backend: the kernel fills a new (M, 2) array.
GetAInducedCupy ==
    /\ op = "validate" /\ raised = "none"
    /\ args.options.screening_use_jax
    /\ LET a == args.arrays
       IN  A_induced' = get_A_induced_cupy(a.J_site, a.site_areas, a.sites, a.edge_centers,
                                            empty(Cells(Rows(a.edge_centers), 2)))
    /\ ret' = A_induced'
    /\ op' = "get_A_induced_cupy"
    /\ raised' = "none"
    /\ UNCHANGED <<objects, mesh, args, lanes, writes>>

\* The vectorized backend, used when no other backend is selected.
InducedPotentialVectorized ==
    /\ op = "validate" /\ raised = "none"
    /\ ~args.options.screening_use_numba /\ ~args.options.screening_use_jax
    /\ LET a == args.arrays
       IN  ret' = induced_potential_vectorized(a.J_site, a.site_areas, a.sites, a.edge_centers)
    /\ op' = "induced_potential_vectorized"
    /\ raised' = "none"
    /\ UNCHANGED <<objects, mesh, args, kernel>>

NextScreening ==
    \/ Validate
    \/ GetAInducedNumba
    \/ GetAInducedCupy
    \/ InducedPotentialVectorized

SpecScreening == InitScreening /\ [][NextScreening]_vars

(***************************************************************************)
(* SpecLanes: one call of a parallel kernel, lane by lane.                 *)
(*                                                                         *)
(* get_A_induced_numba runs the iterations i of its prange loop as lanes;  *)
(* a step of a lane is one iteration of the loop over the sites or one     *)
(* store to out.  A launch of get_A_induced_cupy runs one thread per grid  *)
(* index; its loop over the sites touches the registers of the thread and  *)
(* the arguments only and is one step, its store another.  The lanes take  *)
(* their steps in any order.                                               *)
(***************************************************************************)
\* the sheet current and the two layouts of edge centers of the calls; no edge
\* center lies on a site
LaneCurrent == [j \in ScreenSites |-> <<j + 1, -2>>]
LaneCenters == {[i \in EdgeCenters |-> <<1 + i, 0>>], [i \in EdgeCenters |-> <<0, 2 + i>>]}
LaneArrays == {ScreeningArrays(LaneCurrent, centers) : centers \in LaneCenters}

\* arrays that fail a shape check of get_A_induced_numba
BadShapes ==
    LET a == ScreeningArrays(LaneCurrent, [i \in EdgeCenters |-> <<1 + i, 0>>])
    IN  {[a EXCEPT !.J_site.shape = <<NumScreenSites>>],
         [a EXCEPT !.J_site.shape = <<NumScreenSites, 3>>],
         [a EXCEPT !.sites.shape = <<NumScreenSites + 1, 2>>],
         [a EXCEPT !.edge_centers.shape = <<NumEdgeCenters>>],
         [a EXCEPT !.edge_centers.shape = <<NumEdgeCenters, 3>>]}

InitLanes ==
    /\ \E a \in LaneArrays \cup BadShapes : args = [arrays |-> a]
    /\ elements = <<>>
    /\ points = <<>>
    /\ boundary = {}
    /\ lanes = <<>>
    /\ A_induced = <<>>
    /\ writes = <<>>
    /\ heap = <<>>
    /\ calls = <<>>
    /\ op = "input"
    /\ ret = <<>>
    /\ raised = "none"

\* a variant of the store of a lane that always goes to column 0
StoreIndexCol0(i, k) == <<i, 0>>

\* out[i, k] = tmp / A_induced[i, k] = tmp: the cell that is stored to
StoreIndex(i, k) == <<i, k>>

\* the array A and the record of its stores after lane l stores v to cell c
Stored(A, c, v) == IF c \in DOMAIN A THEN [A EXCEPT ![c] = v] ELSE A @@ (c :> v)
Recorded(w, c, l) ==
    IF c \in DOMAIN w
    THEN [w EXCEPT ![c] = [n |-> @.n + 1, by |-> @.by \cup {l}]]
    ELSE w @@ (c :> [n |-> 1, by |-> {l}])

\* The call of get_A_induced_numba: the asserts, then out = np.empty(...) and
\* the start of the prange loop.
CallNumba ==
    /\ op = "input"
    /\ LET a == args.arrays
       IN  IF ~NumbaAsserts(a.J_site, a.site_areas, a.sites, a.edge_centers)
           THEN /\ raised' = "AssertionError"
                /\ op' = "get_A_induced_numba"
                /\ UNCHANGED <<objects, lanes, A_induced>>
           ELSE /\ raised' = "none"
                /\ op' = "numba_running"
                /\ A_induced' = empty(Cells(Rows(a.edge_centers), a.sites.shape[2]))
                /\ lanes' = [i \in 0 .. (Rows(a.edge_centers) - 1) |->
                               [pc |-> "loop", k |-> 0, j |-> 0, tmp |-> SZero]]
    /\ UNCHANGED <<objects, mesh, args, writes, ret>>

\* A step of the iteration i of the prange loop.
NumbaStep(i) ==
    /\ op = "numba_running"
    /\ lanes[i].pc = "loop"
    /\ LET a == args.arrays
           l == lanes[i]
       IN  IF l.j < Rows(a.J_site)
           THEN \* tmp += J_site[j, k] * site_areas[j] / dr
                /\ lanes' = [lanes EXCEPT ![i].tmp =
                                SAdd(l.tmp, Term(a.J_site, a.site_areas, a.sites,
                                                 a.edge_centers, i, l.j, l.k)),
                                          ![i].j = l.j + 1]
                /\ UNCHANGED <<objects, A_induced, writes>>
           ELSE \* out[i, k] = tmp, then the next k with tmp = 0.0
                /\ A_induced' = Stored(A_induced, StoreIndex(i, l.k), l.tmp)
                /\ writes' = Recorded(writes, StoreIndex(i, l.k), i)
                /\ lanes' = [lanes EXCEPT ![i] =
                                IF l.k + 1 < a.J_site.shape[2]
                                THEN [pc |-> "loop", k |-> l.k + 1, j |-> 0, tmp |-> SZero]
                                ELSE [l EXCEPT !.pc = "done"]]
    /\ UNCHANGED <<objects, mesh, args, op, ret, raised>>

\* return out, after the prange loop has joined
NumbaReturn ==
    /\ op = "numba_running"
    /\ \A i \in DOMAIN lanes : lanes[i].pc = "done"
    /\ op' = "get_A_induced_numba"
    /\ ret' = A_induced
    /\ UNCHANGED <<objects, mesh, args, kernel, raised>>

\* the arrays have the shapes of the arrays of a mesh
WellShaped(a) ==
    /\ a.J_site.shape = <<Rows(a.site_areas), 2>>
    /\ a.sites.shape = a.J_site.shape
    /\ ndim(a.edge_centers) = 2
    /\ a.edge_centers.shape[2] = 2

\* The launch of get_A_induced_cupy on the arrays of a mesh and a new (M, 2)
\* array A_induced; the kernel has no check of their shapes.
LaunchCupy ==
    /\ op = "input"
    /\ LET a == args.arrays
       IN  /\ WellShaped(a)
           /\ A_induced' = empty(Cells(Rows(a.edge_centers), 2))
           /\ lanes' = [t \in LaunchGrid(Rows(a.edge_centers)) |->
                           [pc |-> "start", tmp |-> SZero]]
    /\ op' = "cupy_running"
    /\ UNCHANGED <<objects, mesh, args, writes, ret, raised>>

\* A step of the thread t = (i, k) of the kernel.
CupyStep(t) ==
    /\ op = "cupy_running"
    /\ LET a == args.arrays
           l == lanes[t]
       IN  \/ /\ l.pc = "start"
              /\ lanes' = [lanes EXCEPT ![t] =
                              IF InRange(a.J_site, a.edge_centers, t[1], t[2])
                              THEN [pc |-> "reduced",
                                    tmp |-> Reduce(a.J_site, a.site_areas, a.sites,
                                                   a.edge_centers, t[1], t[2], 0,
                                                   Rows(a.sites), SZero)]
                              ELSE [l EXCEPT !.pc = "done"]]
              /\ UNCHANGED <<objects, A_induced, writes>>
           \/ /\ l.pc = "reduced"
              \* A_induced[i, k] = tmp
              /\ A_induced' = Stored(A_induced, StoreIndex(t[1], t[2]), l.tmp)
              /\ writes' = Recorded(writes, StoreIndex(t[1], t[2]), t)
              /\ lanes' = [lanes EXCEPT ![t].pc = "done"]
    /\ UNCHANGED <<objects, mesh, args, op, ret, raised>>

\* the caller reads A_induced after every thread has finished
CupyJoin ==
    /\ op = "cupy_running"
    /\ \A t \in DOMAIN lanes : lanes[t].pc = "done"
    /\ op' = "get_A_induced_cupy"
    /\ ret' = A_induced
    /\ UNCHANGED <<objects, mesh, args, kernel, raised>>

NextLanes ==
    \/ CallNumba
    \/ \E i \in EdgeCenters : NumbaStep(i)
    \/ NumbaReturn
    \/ LaunchCupy
    \/ \E t \in LaunchGrid(NumEdgeCenters) : CupyStep(t)
    \/ CupyJoin

SpecLanes == InitLanes /\ [][NextLanes]_vars

(***************************************************************************)
(* SpecPure: calls of get_supercurrent by two callers with different psi   *)
(* on the same gradient and edges, and calls of get_A_induced_numba, in    *)
(* any order.  Each caller keeps the list of the arrays it was returned.   *)
(***************************************************************************)
\* the order parameter of the second caller, different from the first one's
OtherPsi(psi) == [j \in DOMAIN psi |-> CAdd(psi[j], <<j, 1>>)]

\* the order parameters of the first caller: one site differs from the others
PurePsi == {[j \in PsiSites |-> IF j = k THEN v ELSE <<1, -1>>] : k \in PsiSites, v \in PsiValues}
\* the edges of the calls: those that start at site 0
PureEdges == {we \in WeightedEdges : we.a = 0}

InitPure ==
    /\ \E we \in PureEdges, psi \in PurePsi, arrays \in LaneArrays :
          args = [psi |-> [a |-> psi, b |-> OtherPsi(psi)],
                  gradient |-> <<GradientRow(we)>>,
                  edges |-> <<<<we.a, we.b>>>>,
                  arrays |-> arrays]
    /\ elements = <<>>
    /\ points = <<>>
    /\ boundary = {}
    /\ lanes = <<>>
    /\ A_induced = <<>>
    /\ writes = <<>>
    /\ heap = <<>>
    /\ calls = <<>>
    /\ op = "input"
    /\ ret = [a |-> <<>>, b |-> <<>>, k |-> <<>>]
    /\ raised = "none"

\* caller c calls get_supercurrent with its psi
CallSupercurrent(c) ==
    /\ Len(ret[c]) < MaxCalls
    /\ LET e == get_supercurrent_effect(args.psi[c], args.gradient, args.edges)
       IN  /\ args' = [args EXCEPT !.psi[c] = e.psi, !.gradient = e.gradient,
                                   !.edges = e.edges]
           /\ ret' = [ret EXCEPT ![c] = Append(@, e.ret)]
    /\ op' = "get_supercurrent"
    /\ UNCHANGED <<objects, mesh, kernel, raised>>

\* a call of get_A_induced_numba
CallKernel ==
    /\ Len(ret.k) < MaxCalls
    /\ LET a == args.arrays
           e == get_A_induced_numba_effect(a.J_site, a.site_areas, a.sites, a.edge_centers)
       IN  /\ args' = [args EXCEPT !.arrays = e.arrays]
           /\ ret' = [ret EXCEPT !.k = Append(@, e.result.out)]
    /\ op' = "get_A_induced_numba"
    /\ UNCHANGED <<objects, mesh, kernel, raised>>

NextPure ==
    \/ \E c \in {"a", "b"} : CallSupercurrent(c)
    \/ CallKernel

SpecPure == InitPure /\ [][NextPure]_vars

(***************************************************************************)
(* SpecSquare: the kernels on the unit square mesh (4 corner sites, 2      *)
(* triangles, 5 edges) with the current at one site only.  Lengths are in  *)
(* units of half the side of the square, so that the corners and the edge  *)
(* midpoints have integer coordinates.                                     *)
(***************************************************************************)
SquareSites == DOMAIN UnitSquareMesh.points
SquareEdges == get_edges(UnitSquareMesh.elements).edges
\* the position of corner j and of the midpoint of edge e (0-based)
SquareSitePos(j) == <<2 * UnitSquareMesh.points[j][1], 2 * UnitSquareMesh.points[j][2]>>
SquareEdgeCenter(e) ==
    LET a == UnitSquareMesh.points[SquareEdges[e + 1][1]]
        b == UnitSquareMesh.points[SquareEdges[e + 1][2]]
    IN  <<a[1] + b[1], a[2] + b[2]>>
\* the current at the source site
SourceRows == {<<1, 0>>, <<-2, 0>>, <<0, 3>>, <<1, -2>>, <<2, 2>>}

\* the arrays of the square with the current row at site s, whose area is area
SquareArrays(s, row, area) ==
    [J_site |-> Array2(4, 2, [j \in SquareSites |-> IF j = s THEN row ELSE <<0, 0>>]),
     site_areas |-> Array1(4, [j \in SquareSites |-> IF j = s THEN area ELSE 1]),
     sites |-> Array2(4, 2, [j \in SquareSites |-> SquareSitePos(j)]),
     edge_centers |-> Array2(Len(SquareEdges), 2,
                             [e \in 0 .. (Len(SquareEdges) - 1) |-> SquareEdgeCenter(e)])]

InitSquare ==
    /\ \E s \in SquareSites, row \in SourceRows, area \in {1, 2} :
          args = [arrays |-> SquareArrays(s, row, area), source |-> s]
    /\ elements = UnitSquareMesh.elements
    /\ points = UnitSquareMesh.points
    /\ boundary = {}
    /\ lanes = <<>>
    /\ A_induced = <<>>
    /\ writes = <<>>
    /\ heap = <<>>
    /\ calls = <<>>
    /\ op = "input"
    /\ ret = <<>>
    /\ raised = "none"

SquareNumba ==
    /\ op = "input"
    /\ LET a == args.arrays
           r == get_A_induced_numba(a.J_site, a.site_areas, a.sites, a.edge_centers)
       IN  ret' = r.out /\ raised' = r.raised
    /\ op' = "get_A_induced_numba"
    /\ UNCHANGED <<objects, mesh, args, kernel>>

SquareCupy ==
    /\ op = "input"
    /\ LET a == args.arrays
       IN  A_induced' = get_A_induced_cupy(a.J_site, a.site_areas, a.sites, a.edge_centers,
                                            empty(Cells(Rows(a.edge_centers), 2)))
    /\ ret' = A_induced'
    /\ op' = "get_A_induced_cupy"
    /\ raised' = "none"
    /\ UNCHANGED <<objects, mesh, args, lanes, writes>>

NextSquare == SquareNumba \/ SquareCupy

SpecSquare == InitSquare /\ [][NextSquare]_vars

(***************************************************************************)
(* SpecDual: get_dual_edge_lengths on the edges of a triangulation.  The   *)
(* sites have indices of one and of two digits.                            *)
(***************************************************************************)
DualSites == {0, 1, 10, 11}
\* the position of site j: the corners of a parallelogram
DualSitePos(j) == <<2 * (j % 10) + (j \div 10), 3 * (j \div 10)>>
DualTriangles == {t \in DualSites \X DualSites \X DualSites :
                     t[1] # t[2] /\ t[2] # t[3] /\ t[1] # t[3]}
\* the circumcenters of the elements
DualVertices(els) ==
    generate_voronoi_vertices([j \in DualSites |-> Rat(DualSitePos(j)[1])],
                              [j \in DualSites |-> Rat(DualSitePos(j)[2])], els)
\* the midpoints of the edges: xe, ye
EdgeMid(edges, c) ==
    [i \in DOMAIN edges |->
        FDiv(Rat(DualSitePos(edges[i][1])[c] + DualSitePos(edges[i][2])[c]), Two)]

InitDual ==
    /\ \E n \in 1 .. MaxDualTri : elements \in [1 .. n -> DualTriangles]
    /\ points = [j \in DualSites |-> DualSitePos(j)]
    /\ boundary = {}
    /\ args = [edges |-> get_edges(elements).edges,
               x_dual |-> DualVertices(elements)[1],
               y_dual |-> DualVertices(elements)[2]]
    /\ lanes = <<>>
    /\ A_induced = <<>>
    /\ writes = <<>>
    /\ heap = <<>>
    /\ calls = <<>>
    /\ op = "input"
    /\ ret = <<>>
    /\ raised = "none"

GetDualEdgeLengths ==
    /\ op = "input"
    /\ LET r == get_dual_edge_lengths(EdgeMid(args.edges, 1), EdgeMid(args.edges, 2),
                                      elements, args.x_dual, args.y_dual, args.edges)
       IN  ret' = r.dual_lengths /\ raised' = r.raised
    /\ op' = "get_dual_edge_lengths"
    /\ UNCHANGED <<objects, mesh, args, kernel>>

NextDual == GetDualEdgeLengths

SpecDual == InitDual /\ [][NextDual]_vars

(***************************************************************************)
(* SpecPlot: InteractivePlot and MultiInteractivePlot under key presses.   *)
(* The plot is heap[1]; args is the frame range that get_data_range read   *)
(* from the file when show() started.                                      *)
(***************************************************************************)
\* Observable selected by the keys "1" .. "9", "0" of InteractivePlot
ObservableOfKey ==
    [k \in {"1", "2", "3", "4", "5", "6", "7", "8", "9", "0"} |->
        CASE k = "1" -> "COMPLEX_FIELD"
          [] k = "2" -> "PHASE"
          [] k = "3" -> "SUPERCURRENT"
          [] k = "4" -> "NORMAL_CURRENT"
          [] k = "5" -> "SCALAR_POTENTIAL"
          [] k = "6" -> "TOTAL_VECTOR_POTENTIAL"
          [] k = "7" -> "APPLIED_VECTOR_POTENTIAL"
          [] k = "8" -> "INDUCED_VECTOR_POTENTIAL"
          [] k = "9" -> "ALPHA"
          [] k = "0" -> "VORTICITY"]
NavigationKeys == {"right", "left", "shift+right", "shift+left", "up", "down",
                   "shift+up", "shift+down", "home", "end"}
\* "w" saves the data when enable_save is set; "x" and "shift+home" have no branch
OtherKeys == {"w", "x", "shift+home"}
Keys == NavigationKeys \cup DOMAIN ObservableOfKey \cup OtherKeys

minimum(a, b) == IF a <= b THEN a ELSE b
maximum(a, b) == IF a >= b THEN a ELSE b

\* self.frame after the branches of on_keypress on the navigation keys: the
\* first if / elif on "right" and "left", then the chain from "shift+right"
frame_after(frame, key, min_frame, max_frame) ==
    LET first == IF key = "right" THEN minimum(frame + 1, max_frame)
                 ELSE IF key = "left" THEN maximum(frame - 1, min_frame)
                 ELSE frame
    IN  IF key = "shift+right" THEN minimum(first + 10, max_frame)
        ELSE IF key = "shift+left" THEN maximum(first - 10, min_frame)
        ELSE IF key = "up" THEN minimum(first + 100, max_frame)
        ELSE IF key = "down" THEN maximum(first - 100, min_frame)
        ELSE IF key = "shift+up" THEN minimum(first + 1000, max_frame)
        ELSE IF key = "shift+down" THEN maximum(first - 1000, min_frame)
        ELSE IF key = "home" THEN min_frame
        ELSE IF key = "end" THEN max_frame
        ELSE first

\* InteractivePlot.show.on_keypress(event): the plot after the key
InteractivePlot_on_keypress(plot, key, min_frame, max_frame) ==
    [plot EXCEPT !.frame = frame_after(plot.frame, key, min_frame, max_frame),
                 !.observable = IF key \in NavigationKeys THEN @
                                ELSE IF key \in DOMAIN ObservableOfKey
                                     THEN ObservableOfKey[key]
                                ELSE @]

\* MultiInteractivePlot.show.on_keypress(event): the plot after the key
MultiInteractivePlot_on_keypress(plot, key, min_frame, max_frame) ==
    [plot EXCEPT !.frame = frame_after(plot.frame, key, min_frame, max_frame)]

_default_observables == <<"complex_field", "phase", "supercurrent", "normal_current">>

\* the frame ranges of the file: (min_frame, max_frame) with min_frame <= max_frame
FrameRanges == {<<lo, lo + span>> : lo \in 0 .. MaxMinFrame, span \in {0, 3, FrameSpan}}

InitPlot ==
    /\ \E cls \in {"InteractivePlot", "MultiInteractivePlot"}, enable_save \in BOOLEAN :
          heap = <<IF cls = "InteractivePlot"
                   THEN [cls |-> cls, frame |-> 0, observable |-> "COMPLEX_FIELD",
                         enable_save |-> enable_save]
                   ELSE [cls |-> cls, frame |-> 0, observables |-> _default_observables]>>
    /\ \E r \in FrameRanges : args = [min_frame |-> r[1], max_frame |-> r[2]]
    /\ elements = <<>>
    /\ points = <<>>
    /\ boundary = {}
    /\ lanes = <<>>
    /\ A_induced = <<>>
    /\ writes = <<>>
    /\ calls = <<>>
    /\ op = "show"
    /\ ret = <<>>
    /\ raised = "none"

\* a key_press_event with the given key
KeyPress(key) ==
    /\ heap' = [heap EXCEPT ![1] =
                  IF @.cls = "InteractivePlot"
                  THEN InteractivePlot_on_keypress(@, key, args.min_frame, args.max_frame)
                  ELSE MultiInteractivePlot_on_keypress(@, key, args.min_frame, args.max_frame)]
    /\ op' = key
    /\ UNCHANGED <<mesh, args, kernel, calls, ret, raised>>

NextPlot == \E key \in Keys : KeyPress(key)

SpecPlot == InitPlot /\ [][NextPlot]_vars

(***************************************************************************)
(* SpecParameter: calls of one Parameter, heap[1], whose func is           *)
(* func(x, y, z=None, *, a, t=0) = a * x + y + z + t.  calls lists the     *)
(* invocations of func, ret the results returned so far, args the          *)
(* arguments of the last call.                                             *)
(***************************************************************************)
\* an optional number: None, or the int v
None == [none |-> TRUE, v |-> 0]
Some(v) == [none |-> FALSE, v |-> v]
\* an integer array of one entry with the given shape (() or (1,)), and the
\* missing array of z=None
IntArray(shape, v) == [none |-> FALSE, shape |-> shape, data |-> <<v>>]
NoArray == [none |-> TRUE, shape |-> <<>>, data |-> <<>>]

\* hash(n) of an int n of small magnitude: n, except that hash(-1) is -2
hash_int(n) == IF n = -1 THEN -2 ELSE n

\* hash(t) of t, an int or None (the hash of None is no hash of a small int)
hash(t) == IF t.none THEN [none |-> TRUE, h |-> 0] ELSE [none |-> FALSE, h |-> hash_int(t.v)]

\* hash(tuple(kwargs.items())): determined by the names and the hashes of the
\* values, in the order of the dict
hash_items(kwargs) == [k \in DOMAIN kwargs |-> hash_int(kwargs[k])]

\* the bytes of np.ascontiguousarray(a): the entries, without dtype and shape
\* (for None the one object pointer)
tobytes(a) == [none |-> a.none, data |-> a.data]

\* hashlib.sha1(b).hexdigest(): taken to be one-to-one on the bytes
sha1(b) == b

\* Parameter._hash_args(x, y, z, t): the five parts of the concatenation
_hash_args(self, x, y, z, t) ==
    <<hash_items(self.kwargs), sha1(tobytes(x)), sha1(tobytes(y)), sha1(tobytes(z)), hash(t)>>

\* np.atleast_1d(a)
atleast_1d(a) == [a EXCEPT !.shape = IF @ = <<>> THEN <<1>> ELSE @]

\* np.asarray(r).squeeze(), then r.item() when no dimension is left
squeeze_item(r) == IF \A k \in DOMAIN r.shape : r.shape[k] = 1 THEN r.data[1] ELSE r

\* the keyword arguments func is called with
call_kwargs(self, z, t) ==
    LET kt == IF t.none THEN self.kwargs ELSE [k \in DOMAIN self.kwargs \cup {"t"} |->
                                                 IF k = "t" THEN t.v ELSE self.kwargs[k]]
    IN  IF z.none THEN [a |-> kt.a, t |-> IF "t" \in DOMAIN kt THEN Some(kt.t) ELSE None,
                        z |-> NoArray]
        ELSE [a |-> kt.a, t |-> IF "t" \in DOMAIN kt THEN Some(kt.t) ELSE None,
              z |-> atleast_1d(z)]

\* the wrapped function: a * x + y + z + t on arrays of one entry
func(x, y, kwargs) ==
    [none |-> FALSE, shape |-> x.shape,
     data |-> <<kwargs.a * x.data[1] + y.data[1]
                + (IF kwargs.z.none THEN 0 ELSE kwargs.z.data[1])
                + (IF kwargs.t.none THEN 0 ELSE kwargs.t.v)>>]

\* Parameter.__call__(x, y, z, t): the parameter after the call, the value
\* returned and the invocations of func made
Parameter_call(self, x, y, z, t) ==
    LET cache_key == _hash_args(self, x, y, z, t)
        kwargs == call_kwargs(self, z, t)
        result == squeeze_item(func(atleast_1d(x), atleast_1d(y), kwargs))
    IN  IF cache_key \notin DOMAIN self._cache
        THEN [self |-> [self EXCEPT !._cache =
                           [k \in DOMAIN self._cache \cup {cache_key} |->
                               IF k = cache_key THEN result ELSE self._cache[k]]],
              ret |-> result,
              invoked |-> <<[x |-> atleast_1d(x), y |-> atleast_1d(y), kwargs |-> kwargs]>>]
        ELSE [self |-> self, ret |-> self._cache[cache_key], invoked |-> <<>>]

\* the arguments of the calls
ParamX == {IntArray(<<>>, 1), IntArray(<<1>>, 1), IntArray(<<>>, 2)}
ParamY == {IntArray(<<>>, 0)}
ParamZ == {NoArray, IntArray(<<>>, 1)}
ParamT == {None, Some(-2), Some(-1), Some(0)}
ParamA == {1, 2}

InitParameter ==
    /\ \E a \in ParamA :
          heap = <<[cls |-> "Parameter", kwargs |-> [a |-> a], time_dependent |-> TRUE,
                    _cache |-> <<>>]>>
    /\ calls = <<>>
    /\ args = <<>>
    /\ elements = <<>>
    /\ points = <<>>
    /\ boundary = {}
    /\ lanes = <<>>
    /\ A_induced = <<>>
    /\ writes = <<>>
    /\ op = "__init__"
    /\ ret = <<>>
    /\ raised = "none"

\* parameter(x, y, z=z, t=t)
Call(x, y, z, t) ==
    /\ Len(ret) < MaxParamCalls
    /\ LET r == Parameter_call(heap[1], x, y, z, t)
       IN  /\ heap' = [heap EXCEPT ![1] = r.self]
           /\ ret' = Append(ret, r.ret)
           /\ calls' = calls \o r.invoked
    /\ args' = [x |-> x, y |-> y, z |-> z, t |-> t]
    /\ op' = "__call__"
    /\ UNCHANGED <<mesh, kernel, raised>>

\* parameter.kwargs["a"] = a, by the owner of the parameter
SetKwargs(a) ==
    /\ heap[1].kwargs.a # a
    /\ heap' = [heap EXCEPT ![1].kwargs = [a |-> a]]
    /\ op' = "kwargs"
    /\ UNCHANGED <<mesh, kernel, raised, args, ret, calls>>

NextParameter ==
    \/ \E x \in ParamX, y \in ParamY, z \in ParamZ, t \in ParamT : Call(x, y, z, t)
    \/ \E a \in ParamA : SetKwargs(a)

SpecParameter == InitParameter /\ [][NextParameter]_vars

(***************************************************************************)
(* SpecDevice: the operations of one Device, args.self, on the heap.  ret  *)
(* is the value the last operation returned (a reference, None is 0),      *)
(* raised its exception, calls the operations made.  Between the start and *)
(* the end of a with-block of translation() only the operations that       *)
(* return a new device are made.                                           *)
(***************************************************************************)
Film == Polygon("film", <<<<0, 0>>, <<2, 0>>, <<2, 2>>, <<0, 2>>>>, TRUE)
Hole == Polygon("hole", <<<<1, 1>>, <<2, 1>>, <<1, 2>>>>, TRUE)
SourcePolygon == Polygon(NoName, <<<<-1, 0>>, <<0, 0>>, <<0, 2>>, <<-1, 2>>>>, TRUE)
DrainPolygon == Polygon("out", <<<<2, 0>>, <<3, 0>>, <<3, 2>>, <<2, 2>>>>, TRUE)

\* the heap of the arguments of Device(...): the layer 1, the film 2, the
\* polygons of the terminals 3 and 4 and a hole 5
ArgumentHeap == <<Layer(1, 0), Film, SourcePolygon, DrainPolygon, Hole>>

\* the translations, coherence lengths and voltage points of the calls
Shifts == {<<1, -2, 3>>, <<0, 3, 0>>}
CoherenceLengths == {3}
VoltagePoints == {NoneArray, SomeArray(<<<<0, 0>>, <<2, 2>>>>)}

InitDevice ==
    /\ \E source \in {NoRef, 3}, drain \in {NoRef, 4}, voltage_points \in VoltagePoints :
          LET r == Device_init(ArgumentHeap, "device", 1, 2, <<5>>, <<>>, source, drain,
                               voltage_points)
          IN  /\ heap = r.heap
              /\ raised = r.raised
              /\ ret = r.ref
              /\ args = [self |-> r.ref, block |-> "none", shift |-> <<0, 0, 0>>,
                         before |-> <<>>]
    /\ calls = <<"__init__">>
    /\ op = "__init__"
    /\ elements = <<>>
    /\ points = <<>>
    /\ boundary = {}
    /\ lanes = <<>>
    /\ A_induced = <<>>
    /\ writes = <<>>

\* the step of an operation named name with the outcome r
Does(name, r) ==
    /\ args.self # NoRef
    /\ Len(calls) <= MaxDeviceOps
    /\ heap' = r.heap
    /\ ret' = r.ret
    /\ raised' = r.raised
    /\ op' = name
    /\ calls' = Append(calls, name)
    /\ UNCHANGED <<mesh, kernel>>

MakeMesh ==
    /\ args.block = "none"
    /\ Does("make_mesh", make_mesh(heap, args.self))
    /\ UNCHANGED args

SetCoherenceLength(value) ==
    /\ args.block = "none"
    /\ Does("coherence_length", set_coherence_length(heap, args.self, value))
    /\ UNCHANGED args

Copy == Does("copy", copy(heap, args.self)) /\ UNCHANGED args

Scale(xfact, yfact, origin) ==
    Does("scale", scale(heap, args.self, xfact, yfact, origin)) /\ UNCHANGED args

Rotate(degrees, origin) ==
    Does("rotate", rotate(heap, args.self, degrees, origin)) /\ UNCHANGED args

MirrorLayer(about_z) ==
    Does("mirror_layer", mirror_layer(heap, args.self, about_z)) /\ UNCHANGED args

Translate(d, inplace) ==
    /\ inplace => args.block = "none"
    /\ Does(IF inplace THEN "translate(inplace=True)" ELSE "translate(inplace=False)",
            translate(heap, args.self, d[1], d[2], d[3], inplace))
    /\ UNCHANGED args

\* the positions of the polygons, layer.z0 and the points of the mesh
Position(h, self) ==
    [polygons |-> [k \in DOMAIN polygons(h, self) |-> h[polygons(h, self)[k]].points],
     z0 |-> h[h[self].layer].z0,
     points |-> Device_points(h, self)]

\* with device.translation(dx, dy, dz): the start of the block
TranslationEnter(d) ==
    /\ args.block = "none"
    /\ Does("translation.__enter__", translation_enter(heap, args.self, d[1], d[2], d[3]))
    /\ args' = [args EXCEPT !.block = "body", !.shift = d,
                            !.before = Position(heap, args.self)]

\* the end of the block: the body returned, or raised an exception (exc), which
\* is raised again after the finally clause
TranslationExit(exc) ==
    /\ args.block = "body"
    /\ LET r == translation_exit(heap, args.self, args.shift[1], args.shift[2],
                                 args.shift[3], exc)
       IN  Does("translation.__exit__",
                [r EXCEPT !.raised = IF exc /\ @ = "none" THEN "BodyError" ELSE @])
    /\ args' = [args EXCEPT !.block = "none"]

NextDevice ==
    \/ MakeMesh
    \/ \E value \in CoherenceLengths : SetCoherenceLength(value)
    \/ Copy
    \/ \E origin \in {Origin(0, 0), BadOrigin} : Scale(2, -1, origin)
    \/ \E origin \in {Origin(1, 0), BadOrigin} : Rotate(90, origin)
    \/ MirrorLayer(1)
    \/ \E d \in Shifts : Translate(d, TRUE)
    \/ Translate(<<1, -2, 3>>, FALSE)
    \/ \E d \in Shifts : TranslationEnter(d)
    \/ \E exc \in BOOLEAN : TranslationExit(exc)

SpecDevice == InitDevice /\ [][NextDevice]_vars

(***************************************************************************)
(* Claims on get_edges, get_edge_lengths, get_surrounding_voronoi_polygons *)
(***************************************************************************)
\* the vertices of triangle t (0-based) of the input
Vertices(t) == Range(elements[t + 1])
TriangleIndices == {t - 1 : t \in DOMAIN elements}
\* the triangles that have the undirected edge {a, b} as a side
TrianglesWithSide(a, b) == {t \in TriangleIndices : {a, b} \subseteq Vertices(t)}
\* the undirected sides of the input triangles, as sets of 2 sites
Sides == UNION {{{a, b} : a, b \in Vertices(t)} \ {{v} : v \in Vertices(t)} : t \in TriangleIndices}

\* C1: a returned edge is flagged as boundary exactly when it is a side of exactly
\* one triangle (so not when it is a side of two), and the number of True flags is
\* the number of sides that belong to one triangle only.
C1_BoundaryByMultiplicity ==
    op = "get_edges" =>
        /\ \A k \in DOMAIN ret.edges :
              LET n == Cardinality(TrianglesWithSide(ret.edges[k][1], ret.edges[k][2]))
              IN  /\ ret.is_boundary[k] <=> (n = 1)
                  /\ n = 2 => ~ret.is_boundary[k]
        /\ Cardinality({k \in DOMAIN ret.is_boundary : ret.is_boundary[k]})
              = Cardinality({e \in Sides :
                    \E a, b \in e : a # b /\ Cardinality(TrianglesWithSide(a, b)) = 1})

\* C1 witness: the unit square split into 2 triangles has 5 edges, 4 of them
\* boundary edges and 1 interior edge.
C1_Witness ==
    /\ op = "get_edges"
    /\ elements = UnitSquare
    /\ Len(ret.edges) = 5
    /\ Cardinality({k \in DOMAIN ret.is_boundary : ret.is_boundary[k]}) = 4
    /\ Cardinality({k \in DOMAIN ret.is_boundary : ~ret.is_boundary[k]}) = 1

\* some undirected edge of the input has a multiplicity other than 1 or 2
NonManifold ==
    \E e \in Sides : \E a, b \in e :
        a # b /\ Cardinality(TrianglesWithSide(a, b)) \notin {1, 2}

\* C2: get_edges fails with a topology error, and returns no (edges, is_boundary),
\* whenever an edge of the input has a multiplicity other than 1 or 2.
C2_NonManifoldRejected ==
    (op = "get_edges" /\ NonManifold) => raised = "TopologyError"

\* C3: every returned row has its smaller site first, no row occurs twice, and
\* the rows are exactly the undirected sides of the input triangles.
C3_CanonicalEdges ==
    op = "get_edges" =>
        /\ \A k \in DOMAIN ret.edges : ret.edges[k][1] <= ret.edges[k][2]
        /\ \A j, k \in DOMAIN ret.edges : ret.edges[j] = ret.edges[k] => j = k
        /\ {{ret.edges[k][1], ret.edges[k][2]} : k \in DOMAIN ret.edges} = Sides
        /\ \A k \in DOMAIN ret.edges : Len(ret.edges[k]) = 2

\* C3 witness: triangles given in different vertex orders, one of them with a
\* side listed larger site first, share an edge that is returned once.
C3_Witness ==
    /\ op = "get_edges"
    /\ elements = <<<<2, 1, 0>>, <<3, 0, 2>>>>
    /\ ret.edges = <<<<0, 1>>, <<0, 2>>, <<0, 3>>, <<1, 2>>, <<2, 3>>>>

\* the exact distance of the sites a and b
SiteDistance(a, b) ==
    [sqrt |-> <<(points[a][1] - points[b][1]) * (points[a][1] - points[b][1])
                 + (points[a][2] - points[b][2]) * (points[a][2] - points[b][2]), 1>>]

\* C4: get_edge_lengths returns 3 * M lengths for M triangles, and entry k is the
\* length of the k-th edge that get_edges generates before deduplication: the
\* sides (v0, v1) of all triangles, then the sides (v1, v2), then the sides (v2, v0).
C4_EdgeLengthOrder ==
    op = "get_edge_lengths" =>
        /\ Len(ret) = 3 * Len(elements)
        /\ Len(concat_edges(elements)) = 3 * Len(elements)
        /\ \A k \in DOMAIN ret :
              ret[k] = <<SiteDistance(concat_edges(elements)[k][1],
                                      concat_edges(elements)[k][2])>>
        /\ \A t \in DOMAIN elements, side \in 0 .. 2 :
              ret[side * Len(elements) + t]
                  = <<SiteDistance(elements[t][side + 1], elements[t][((side + 1) % 3) + 1])>>

\* C4 witness: 2 triangles give 6 lengths, and the second entry belongs to the
\* first side of the second triangle.
C4_Witness ==
    /\ op = "get_edge_lengths"
    /\ elements = UnitSquare
    /\ Len(ret) = 6
    /\ ret[2] = <<SiteDistance(0, 2)>>
    /\ ret[2] # <<SiteDistance(1, 2)>>

\* C7: the keys are the sites 0 .. num_sites - 1, the value of site i lists exactly
\* the triangles that have i as a vertex (none for an unreferenced site), each
\* once, and every triangle appears in exactly 3 values.
C7_SurroundingPolygons ==
    op = "get_surrounding_voronoi_polygons" =>
        /\ DOMAIN ret = 0 .. (Cardinality(DOMAIN points) - 1)
        /\ \A i \in DOMAIN ret :
              /\ Range(ret[i]) = {t \in TriangleIndices : i \in Vertices(t)}
              /\ Len(ret[i]) = Cardinality(Range(ret[i]))
        /\ \A t \in TriangleIndices :
              Cardinality(Vertices(t)) = 3 =>
                  Cardinality({i \in DOMAIN ret : t \in Range(ret[i])}) = 3

\* C7 witness: a site of both triangles, a site of one, and an unreferenced site.
C7_Witness ==
    /\ op = "get_surrounding_voronoi_polygons"
    /\ elements = <<<<0, 1, 2>>, <<2, 1, 0>>>>
    /\ ret[0] = <<0, 1>>
    /\ ret[3] = <<>>

(***************************************************************************)
(* Claims on generate_voronoi_vertices, compute_surrounding_area and       *)
(* get_convex_polygon_area                                                 *)
(***************************************************************************)
\* twice the signed area of triangle t (0-based): the cross product of its two
\* edge vectors from vertex 0
Cross2(t) ==
    LET a == points[elements[t + 1][1]]
        b == points[elements[t + 1][2]]
        c == points[elements[t + 1][3]]
    IN  (b[1] - a[1]) * (c[2] - a[2]) - (b[2] - a[2]) * (c[1] - a[1])
Degenerate(t) == Cross2(t) = 0

\* the squared distance of the point c from site v
SqDist(c, v) ==
    FAdd(FSq(FSub(c[1], Rat(points[v][1]))), FSq(FSub(c[2], Rat(points[v][2]))))

\* C5: the point returned for a non-degenerate triangle is equidistant from the
\* 3 vertices of the triangle.
C5_CircumcenterEquidistant ==
    op = "generate_voronoi_vertices" =>
        \A t \in TriangleIndices :
            ~Degenerate(t) =>
                LET c == <<ret[1][t + 1], ret[2][t + 1]>>
                    e == elements[t + 1]
                IN  /\ IsFinite(c[1]) /\ IsFinite(c[2])
                    /\ SqDist(c, e[1]) = SqDist(c, e[2])
                    /\ SqDist(c, e[2]) = SqDist(c, e[3])

\* C5 witness: a clockwise triangle away from the origin and its circumcenter
\* (3/2, 3/2).
C5_Witness ==
    /\ op = "generate_voronoi_vertices"
    /\ points = Seq0(<<<<1, 1>>, <<1, 2>>, <<2, 1>>>>)
    /\ Cross2(0) < 0
    /\ ret = <<<<<<3, 2>>>>, <<<<3, 2>>>>>>

\* C6: for an input with a degenerate triangle generate_voronoi_vertices reports
\* an error instead of returning NaN or infinite coordinates.
C6_DegenerateRejected ==
    (op = "generate_voronoi_vertices" /\ \E t \in TriangleIndices : Degenerate(t))
        => raised # "none"

RECURSIVE SumOf(_, _)
\* the sum of f[i] over the set S of sites
SumOf(f, S) ==
    IF S = {} THEN Zero
    ELSE LET i == CHOOSE i \in S : TRUE IN FAdd(f[i], SumOf(f, S \ {i}))

\* the area of the footprint of the mesh: the triangles of a triangulation do not
\* overlap
Footprint ==
    SumOf([t \in TriangleIndices |-> Frac(Abs(Cross2(t)), 2)], TriangleIndices)

\* the input is a closed triangulation without holes with the boundary array of
\* the mesh builder: every input of SpecGeometry whose triangles are not
\* degenerate is one
ClosedMesh ==
    /\ \A t \in TriangleIndices : ~Degenerate(t)
    /\ boundary = boundary_sites_of(elements)

FAbs(a) == <<Abs(a[1]), a[2]>>

\* C8: the cell areas of a closed mesh without holes sum to the area of its
\* footprint, within the relative tolerance 1e-6.
C8_AreasSumToFootprint ==
    (op = "compute_surrounding_area" /\ ClosedMesh) =>
        ~FLess(Footprint, FMul(Rat(1000000), FAbs(FSub(SumOf(ret, DOMAIN ret), Footprint))))

\* The points that the cell of site i is built from.
DualOfInput == generate_voronoi_vertices(XOf(points), YOf(points), elements)
Circumcenter(t) == <<DualOfInput[1][t + 1], DualOfInput[2][t + 1]>>
Midpoint(e) ==
    LET ab == SortedInts(e)
    IN  <<Frac(points[ab[1]][1] + points[ab[2]][1], 2),
          Frac(points[ab[1]][2] + points[ab[2]][2], 2)>>
BoundarySides == {e \in Sides : \E a, b \in e : a # b /\ Cardinality(TrianglesWithSide(a, b)) = 1}
SurroundingTriangles(i) == {t \in TriangleIndices : i \in Vertices(t)}
SurroundingCircumcenters(i) == {Circumcenter(t) : t \in SurroundingTriangles(i)}
SitePoint(i) == <<Rat(points[i][1]), Rat(points[i][2])>>
IncidentBoundarySides(i) == {e \in BoundarySides : i \in e}
\* the site and the midpoints of its boundary edges
CornerPoints(i) == {SitePoint(i)} \cup {Midpoint(e) : e \in IncidentBoundarySides(i)}
\* the area of the convex hull of a set of points
AreaOfHull(P) == IF Collinear(P) THEN Zero ELSE HullArea(P)

\* C9: the area of an interior site is the hull area of its circumcenters; the
\* area of a boundary site is the hull area of its circumcenters, its position
\* and the midpoints of its boundary edges, minus the hull area of the position
\* and the midpoints exactly when the hull has fewer corners than input points.
C9_CellArea ==
    op = "compute_surrounding_area" =>
        \A i \in DOMAIN points :
            IF i \notin boundary
            THEN ret[i] = AreaOfHull(SurroundingCircumcenters(i))
            ELSE LET P == SurroundingCircumcenters(i) \cup CornerPoints(i)
                     inputs == Cardinality(SurroundingTriangles(i)) + 1
                                  + Cardinality(IncidentBoundarySides(i))
                     corners == Cardinality(ExtremePoints(P))
                 IN  /\ corners <= inputs
                     /\ corners < inputs
                          => ret[i] = FSub(AreaOfHull(P), AreaOfHull(CornerPoints(i)))
                     /\ corners = inputs => ret[i] = AreaOfHull(P)

\* C9 witness: in the unit square, site 0 has its two circumcenters in one place
\* (4 corners for 5 points, 1/4 - 1/8) and site 1 has 4 corners for 4 points.
C9_Witness ==
    /\ op = "compute_surrounding_area"
    /\ points = UnitSquareMesh.points
    /\ elements = UnitSquare
    /\ boundary = {0, 1, 2, 3}
    /\ ret[0] = <<1, 8>>
    /\ ret[1] = <<1, 4>>

\* the points of the call of get_convex_polygon_area that gave ret
CallPoints == {<<ret.x[k], ret.y[k]>> : k \in DOMAIN ret.x}

\* C10: for points on one line, or fewer than 3 points, get_convex_polygon_area
\* returns area 0 and convex without an error, and compute_surrounding_area
\* returns area 0 for a site whose points are such a set.
C10_DegenerateHull ==
    /\ op \in {"get_convex_polygon_area", "compute_surrounding_area"} => raised = "none"
    /\ (op = "get_convex_polygon_area" /\ (Len(ret.x) < 3 \/ Collinear(CallPoints)))
          => ret.value = <<Zero, TRUE>>
    /\ op = "compute_surrounding_area" =>
          \A i \in DOMAIN points :
              LET P == IF i \in boundary
                       THEN SurroundingCircumcenters(i) \cup CornerPoints(i)
                       ELSE SurroundingCircumcenters(i)
              IN  Collinear(P) => ret[i] = Zero

\* C10 witness: 3 distinct points on one line passed to get_convex_polygon_area.
C10_Witness ==
    /\ op = "get_convex_polygon_area"
    /\ ret.x = <<Rat(0), Rat(1), Rat(2)>>
    /\ ret.y = <<Rat(0), Rat(1), Rat(2)>>
    /\ ret.value = <<Zero, TRUE>>

\* C11: the entries of the mass vector sum to the total area of the mesh, and
\* the entry of every site that is a vertex of a triangle of non-zero area is
\* strictly positive, whatever the vertex order of the triangles.
C11_MassPositive ==
    (op = "mass_matrix" /\ ~ret.sparse) =>
        /\ SumOf(ret.value, DOMAIN points) = Footprint
        /\ \A s \in DOMAIN points :
              (\E t \in TriangleIndices : s \in Vertices(t) /\ ~Degenerate(t))
                  => FLess(Zero, ret.value[s])

\* the signed area of triangle t: half of (p1 - p0) x (p2 - p0)
SignedArea(t) == Frac(Cross2(t), 2)

GradPsiRe(e) ==
    LET term == [j \in PsiSites |->
                    Rat(args.gradient[e][j][1] * args.psi[j][1]
                        - args.gradient[e][j][2] * args.psi[j][2])]
    IN  SumOf(term, PsiSites)[1]
GradPsiIm(e) ==
    LET term == [j \in PsiSites |->
                    Rat(args.gradient[e][j][1] * args.psi[j][2]
                        + args.gradient[e][j][2] * args.psi[j][1])]
    IN  SumOf(term, PsiSites)[1]

\* C13: get_supercurrent returns one value per edge, and the value of the edge
\* e = (a, b) is the imaginary part of conj(psi[a]) * (gradient @ psi)[e]:
\* with psi[a] = x + iy and (gradient @ psi)[e] = u + iv it is x*v - y*u.
C13_Supercurrent ==
    op = "get_supercurrent" =>
        /\ DOMAIN ret = DOMAIN args.edges
        /\ \A e \in DOMAIN args.edges :
              LET a == args.edges[e][1]
              IN  ret[e] = args.psi[a][1] * GradPsiIm(e) - args.psi[a][2] * GradPsiRe(e)

\* C13 witness: two edges with different currents; on the edge (0, 1) with
\* weight 2 and link i, psi = (1, 1 - i) gives grad psi = 2 * (i * (1 - i) - 1)
\* = 2i and the current 2; the edge (1, 0) with weight 1 and link 1 gives
\* grad psi = 1 - (1 - i) = i and the current Im((1 + i) * i) = 1.
C13_Witness ==
    /\ op = "get_supercurrent"
    /\ args.psi = (0 :> <<1, 0>> @@ 1 :> <<1, -1>>)
    /\ args.edges = <<<<0, 1>>, <<1, 0>>>>
    /\ args.gradient[1] = (0 :> <<-2, 0>> @@ 1 :> <<0, 2>>)
    /\ ret = <<2, 1>>

(***************************************************************************)
(* Claims on the screening kernels                                         *)
(***************************************************************************)
\* no edge center lies on a site
Distinct == Coincident(args.arrays) = {}

KernelOps == {"get_A_induced_numba", "get_A_induced_cupy"}
BackendOps == KernelOps \cup {"induced_potential_vectorized"}

\* sum over all sites j of J_site[j, k] * site_area[j] / |edge_center[i] - site_pos[j]|
InducedSum(i, k) ==
    LET a == args.arrays
        sq(x) == x * x
        dist2(j) == sq(a.edge_centers.data[i][1] - a.sites.data[j][1])
                    + sq(a.edge_centers.data[i][2] - a.sites.data[j][2])
    IN  SSum([j \in ScreenSites |->
                 OverSqrt(Rat(a.J_site.data[j][k + 1] * a.site_areas.data[j]), dist2(j))],
             ScreenSites)

\* C14: the kernels return an array of shape (M, 2) whose element (i, k) is the
\* sum over all sites j of J_site[j, k] * site_area[j] / |edge_center[i] - site_pos[j]|
\* (stated where the sum is defined: no edge center on a site).
C14_InducedPotential ==
    (op \in KernelOps /\ raised = "none" /\ Distinct) =>
        /\ DOMAIN ret = EdgeCenters \X {0, 1}
        /\ \A i \in EdgeCenters, k \in {0, 1} : ret[<<i, k>>] = InducedSum(i, k)

\* C14 witness: the numba kernel for the currents (1, 0) and (1, -2) and the
\* edge centers (1, 0) and (0, 2): 1 + sqrt(2), -2 sqrt(2), 1/2 + (2/5) sqrt(5),
\* -(4/5) sqrt(5).
C14_Witness ==
    /\ op = "get_A_induced_numba"
    /\ args.arrays.J_site.data = (0 :> <<1, 0>> @@ 1 :> <<1, -2>>)
    /\ args.arrays.edge_centers.data = (0 :> <<1, 0>> @@ 1 :> <<0, 2>>)
    /\ ret[<<0, 0>>] = (1 :> <<1, 1>> @@ 2 :> <<1, 1>>)
    /\ ret[<<0, 1>>] = (2 :> <<-2, 1>>)
    /\ ret[<<1, 0>>] = (1 :> <<1, 2>> @@ 5 :> <<2, 5>>)
    /\ ret[<<1, 1>>] = (5 :> <<-4, 5>>)

\* the constants of the linearity check
Scalars == {-1, 0, 2, 3}
\* c * J_site and c * v for an integer c and a finite float v
ScaleJ(J_site, c) ==
    [J_site EXCEPT !.data = [j \in DOMAIN @ |-> <<c * @[j][1], c * @[j][2]>>]]
SScale(c, v) == IF c = 0 THEN SZero ELSE [f \in DOMAIN v |-> FMul(Rat(c), v[f])]

\* the array that the kernel named by op returns for the current c * J_site
KernelOnScaled(c) ==
    LET a == args.arrays
    IN  IF op = "get_A_induced_numba"
        THEN get_A_induced_numba(ScaleJ(a.J_site, c), a.site_areas, a.sites, a.edge_centers).out
        ELSE get_A_induced_cupy(ScaleJ(a.J_site, c), a.site_areas, a.sites, a.edge_centers,
                                empty(Cells(Rows(a.edge_centers), 2)))

\* C15: with the areas, the sites and the edge centers fixed, the kernel maps
\* c * J_site to c times the array it returns for J_site, and an all-zero
\* J_site to an all-zero array (stated for edge centers that lie on no site).
C15_Linear ==
    (op \in KernelOps /\ raised = "none" /\ Distinct) =>
        /\ \A c \in Scalars : KernelOnScaled(c) = [x \in DOMAIN ret |-> SScale(c, ret[x])]
        /\ (\A j \in ScreenSites : args.arrays.J_site.data[j] = <<0, 0>>)
              => \A x \in DOMAIN ret : ret[x] = SZero

\* C15 witness: the current (1, -2) at site 0 alone gives -2 at the edge center
\* (1, 0), and 3 times that current gives -6.
C15_Witness ==
    /\ op = "get_A_induced_numba"
    /\ args.arrays.J_site.data[0] = <<1, -2>>
    /\ \A j \in ScreenSites \ {0} : args.arrays.J_site.data[j] = <<0, 0>>
    /\ args.arrays.edge_centers.data[0] = <<1, 0>>
    /\ Distinct
    /\ ret[<<0, 1>>] = (1 :> <<-2, 1>>)
    /\ KernelOnScaled(3)[<<0, 1>>] = (1 :> <<-6, 1>>)

\* C16: on the same arrays the three backends give the same array, element for
\* element (exactly, in exact arithmetic; stated for edge centers on no site).
C16_BackendsAgree ==
    (op \in BackendOps /\ raised = "none" /\ Distinct) =>
        LET a == args.arrays
        IN  /\ ret = get_A_induced_numba(a.J_site, a.site_areas, a.sites, a.edge_centers).out
            /\ ret = get_A_induced_cupy(a.J_site, a.site_areas, a.sites, a.edge_centers,
                                         empty(Cells(Rows(a.edge_centers), 2)))
            /\ ret = induced_potential_vectorized(a.J_site, a.site_areas, a.sites,
                                                   a.edge_centers)

\* C16 witness: the GPU kernel has filled both columns of the array with
\* different non-zero values.
C16_Witness ==
    /\ op = "get_A_induced_cupy"
    /\ Distinct
    /\ args.arrays.edge_centers.data[0] = <<0, 2>>
    /\ ret[<<0, 0>>] = (1 :> <<1, 2>> @@ 5 :> <<2, 5>>)
    /\ ret[<<0, 1>>] = (5 :> <<-4, 5>>)

\* both backends are selected
BothBackends == args.options.screening_use_numba /\ args.options.screening_use_jax

\* C17: validation raises a configuration error exactly when more than one
\* backend is selected, and no backend computes anything for such options.
C17_OneBackend ==
    /\ op = "validate" => (raised = "SolverOptionsError" <=> BothBackends)
    /\ BothBackends => (op \notin BackendOps /\ ret = <<>> /\ A_induced = <<>>)

\* C17 witness: the options with both backends have been rejected.
C17_Witness ==
    /\ op = "validate"
    /\ BothBackends
    /\ raised = "SolverOptionsError"
    /\ ret = <<>>

\* C18: a call with an edge center on a site is rejected.
C18_CoincidenceRejected ==
    (op \in KernelOps /\ ~Distinct) => raised # "none"

\* the call has ended, the kernel is running
Ended == op \in KernelOps
Running == op \in {"numba_running", "cupy_running"}

\* the array that the kernel named by op computes when its lanes run one by one
SequentialResult ==
    LET a == args.arrays
    IN  IF op \in {"get_A_induced_numba", "numba_running"}
        THEN get_A_induced_numba(a.J_site, a.site_areas, a.sites, a.edge_centers).out
        ELSE get_A_induced_cupy(a.J_site, a.site_areas, a.sites, a.edge_centers,
                                empty(Cells(Rows(a.edge_centers), 2)))

\* the lane that owns the cell (i, k): iteration i of the prange loop, thread
\* (i, k) of the GPU kernel
Owner(c) == IF op \in {"get_A_induced_numba", "numba_running"} THEN c[1] ELSE c

\* C19: at every moment of a call each cell of the (M, 2) output has been stored
\* to at most once, by the lane that owns it, with the value of the sum of
\* that cell, and no other cell has been stored to; when the call has ended
\* each cell has been stored to exactly once and A_induced is the array of the
\* sequential run, whatever the order of the steps of the lanes was.
C19_DataParallel ==
    (Running \/ (Ended /\ raised = "none")) =>
        /\ DOMAIN writes \subseteq EdgeCenters \X {0, 1}
        /\ DOMAIN A_induced = EdgeCenters \X {0, 1}
        /\ \A c \in DOMAIN A_induced :
              IF c \in DOMAIN writes
              THEN /\ writes[c] = [n |-> 1, by |-> {Owner(c)}]
                   /\ A_induced[c] = SequentialResult[c]
              ELSE A_induced[c] = Uninit
        /\ Ended => (DOMAIN writes = DOMAIN A_induced /\ ret = SequentialResult)

\* C19 witness: a launch of the GPU kernel in which the thread (1, 1) has
\* stored its cell before the thread (0, 0) has started, while the thread
\* (0, 2) outside the output has finished.
C19_Witness ==
    /\ op = "cupy_running"
    /\ lanes[<<1, 1>>].pc = "done"
    /\ lanes[<<0, 0>>].pc = "start"
    /\ lanes[<<0, 2>>].pc = "done"
    /\ <<1, 1>> \in DOMAIN writes
    /\ <<0, 0>> \notin DOMAIN writes

\* the shapes of the arrays are those of the contract: J_site and sites (N, 2),
\* edge_centers (M, 2)
ShapesOk ==
    LET a == args.arrays
    IN  /\ a.J_site.shape = <<NumScreenSites, 2>>
        /\ a.sites.shape = <<NumScreenSites, 2>>
        /\ a.edge_centers.shape = <<NumEdgeCenters, 2>>

\* C20: a call with a violated shape check ends with an error; a call that
\* ends with an error has allocated and returned nothing; no array is returned
\* while lanes are running, and a returned array has a value in every cell.
C20_AtomicFailure ==
    /\ (Ended /\ ~ShapesOk) => raised = "AssertionError"
    /\ raised # "none" => (ret = <<>> /\ A_induced = <<>> /\ writes = <<>>)
    /\ Running => ret = <<>>
    /\ ret # <<>> =>
          /\ Ended /\ raised = "none"
          /\ \A l \in DOMAIN lanes : lanes[l].pc = "done"
          /\ \A c \in DOMAIN ret : ret[c] # Uninit

\* C20 witness: the call of get_A_induced_numba with sites of shape (N + 1, 2)
\* and J_site of shape (N, 2) has failed.
C20_Witness ==
    /\ op = "get_A_induced_numba"
    /\ args.arrays.sites.shape # args.arrays.J_site.shape
    /\ raised = "AssertionError"
    /\ ret = <<>>

(***************************************************************************)
(* Claims on purity                                                        *)
(***************************************************************************)
\* what caller c is returned when its call runs alone on the arrays in args
AloneResult(c) ==
    IF c = "k"
    THEN get_A_induced_numba(args.arrays.J_site, args.arrays.site_areas,
                             args.arrays.sites, args.arrays.edge_centers).out
    ELSE get_supercurrent(args.psi[c], args.gradient, args.edges)

SourceDist2(i) ==
    LET c == args.arrays.edge_centers.data[i]
        p == args.arrays.sites.data[args.source]
    IN  (c[1] - p[1]) * (c[1] - p[1]) + (c[2] - p[2]) * (c[2] - p[2])

\* the square of a float that is q * sqrt(f): q * q * f
Mag2(v) ==
    IF v = SZero THEN Zero
    ELSE LET f == CHOOSE f \in DOMAIN v : TRUE IN FMul(FMul(v[f], v[f]), Rat(f))

\* C22: on the unit square with the current at one site, in a component in
\* which that current is not zero an edge center farther from the site has a
\* strictly smaller magnitude of the potential and edge centers at the same
\* distance have the same potential; in a component in which the current is
\* zero at every site the potential is exactly zero at every edge center.
C22_SquareDecay ==
    (op \in KernelOps /\ args.source \in SquareSites) =>
        \A k \in {0, 1} :
            LET I == DOMAIN args.arrays.edge_centers.data
            IN  IF \A j \in SquareSites : args.arrays.J_site.data[j][k + 1] = 0
                THEN \A i \in I : ret[<<i, k>>] = SZero
                ELSE \A i1, i2 \in I :
                        /\ Cardinality(DOMAIN ret[<<i1, k>>]) = 1
                        /\ SourceDist2(i1) < SourceDist2(i2)
                              => FLess(Mag2(ret[<<i2, k>>]), Mag2(ret[<<i1, k>>]))
                        /\ SourceDist2(i1) = SourceDist2(i2)
                              => ret[<<i1, k>>] = ret[<<i2, k>>]

\* C22 witness: the current (1, 0) at corner 0 gives 1 at the midpoints of the
\* two sides through the corner, 1/sqrt(2) on the diagonal, 1/sqrt(5) on the
\* two other sides (in the length unit of the model), and 0 in the y component.
C22_Witness ==
    /\ op = "get_A_induced_numba"
    /\ args.source = 0
    /\ args.arrays.J_site.data[0] = <<1, 0>>
    /\ args.arrays.site_areas.data[0] = 1
    /\ SquareEdges = <<<<0, 1>>, <<0, 2>>, <<0, 3>>, <<1, 2>>, <<2, 3>>>>
    /\ ret[<<0, 0>>] = (1 :> <<1, 1>>) /\ ret[<<2, 0>>] = (1 :> <<1, 1>>)
    /\ ret[<<1, 0>>] = (2 :> <<1, 2>>)
    /\ ret[<<3, 0>>] = (5 :> <<1, 5>>) /\ ret[<<4, 0>>] = (5 :> <<1, 5>>)
    /\ \A i \in 0 .. 4 : ret[<<i, 1>>] = SZero

(***************************************************************************)
(* Claims on get_dual_edge_lengths                                         *)
(***************************************************************************)
\* the 0-based indices of the elements that have the canonical index pair e as
\* a side, once per such side, in increasing order of element
IncidentTriangles(els, e) ==
    LET sides(t) == {s \in 1 .. 3 :
                        {els[t][edge_element_indices[s][1] + 1],
                         els[t][edge_element_indices[s][2] + 1]} = {e[1], e[2]}}
        steps == [s \in 1 .. 3 * Len(els) |-> <<((s - 1) \div 3) + 1, ((s - 1) % 3) + 1>>]
        hits == Filter(steps, {st \in Range(steps) : st[2] \in sides(st[1])})
    IN  [n \in DOMAIN hits |-> hits[n][1] - 1]

\* the squared distance of the points p and q
Dist2(p, q) == FAdd(FSq(FSub(p[1], q[1])), FSq(FSub(p[2], q[2])))

\* C29: on the edges of get_edges(elements), get_dual_edge_lengths never
\* misses a key, the triangles it finds for an edge are those found by the
\* canonical integer pair, an edge of one triangle gets the distance of that
\* triangle's circumcenter from the edge midpoint and every other edge the
\* distance of the circumcenters of its first two triangles
C29_DualEdgeLengths ==
    op = "get_dual_edge_lengths" =>
        /\ raised = "none"
        /\ DOMAIN ret = DOMAIN args.edges
        /\ \A i \in DOMAIN args.edges :
              LET inc == IncidentTriangles(elements, args.edges[i])
                  cc(t) == <<args.x_dual[t + 1], args.y_dual[t + 1]>>
                  mid == <<EdgeMid(args.edges, 1)[i], EdgeMid(args.edges, 2)[i]>>
              IN  /\ edge_to_element(elements)[str(args.edges[i])] = inc
                  /\ Len(inc) >= 1
                  /\ ret[i] = IF Len(inc) = 1
                              THEN FSqrt(Dist2(cc(inc[1]), mid))
                              ELSE FSqrt(Dist2(cc(inc[1]), cc(inc[2])))

\* a shared edge between sites of one and of two digits and a boundary edge,
\* both with a positive length
C29_Witness ==
    /\ op = "get_dual_edge_lengths"
    /\ raised = "none"
    /\ \E i, k \in DOMAIN args.edges :
          /\ args.edges[i] = <<1, 10>>
          /\ Len(IncidentTriangles(elements, args.edges[i])) = 2
          /\ Len(IncidentTriangles(elements, args.edges[k])) = 1
          /\ ret[i] # FSqrt(Zero)
          /\ ret[k] # FSqrt(Zero)

(***************************************************************************)
(* Claims on the interactive plots                                         *)
(***************************************************************************)
\* C28: after every key press the frame is within [min_frame, max_frame];
\* the observable keys and the keys without a branch leave the frame
\* unchanged and the navigation keys leave the observable unchanged
C28_FrameInRange ==
    [][/\ args.min_frame <= heap'[1].frame
       /\ heap'[1].frame <= args.max_frame
       /\ op' \notin NavigationKeys => heap'[1].frame = heap[1].frame
       /\ op' \in NavigationKeys => heap'[1] = [heap[1] EXCEPT !.frame = heap'[1].frame]]_vars

(***************************************************************************)
(* Claims on Parameter                                                     *)
(***************************************************************************)
\* the combination (kwargs, x, y, z, t) of the call made in this step, as func
\* sees it
Combination ==
    [x |-> atleast_1d(args'.x), y |-> atleast_1d(args'.y),
     kwargs |-> call_kwargs(heap[1], args'.z, args'.t)]

\* C27: in every call func is invoked at most once per combination of
\* (kwargs, x, y, z, t), a repeated combination returns the stored result
\* without invoking func, a result is returned from the cache only to the
\* combination it was computed for, and no cache entry is removed or changed
C27_Memoized ==
    [][op' = "__call__" =>
        /\ \A i, j \in DOMAIN calls' :
              i # j => <<calls'[i].x, calls'[i].y, calls'[i].kwargs>>
                       # <<calls'[j].x, calls'[j].y, calls'[j].kwargs>>
        /\ (\E i \in DOMAIN calls : calls[i] = Combination)
              => /\ calls' = calls
                 /\ ret'[Len(ret')] = squeeze_item(func(Combination.x, Combination.y,
                                                        Combination.kwargs))
        /\ calls' = calls => \E i \in DOMAIN calls : calls[i] = Combination
        /\ \A k \in DOMAIN heap[1]._cache :
              /\ k \in DOMAIN heap'[1]._cache
              /\ heap'[1]._cache[k] = heap[1]._cache[k]]_vars

(***************************************************************************)
(* Claims on Device                                                        *)
(***************************************************************************)
\* the objects of the heap h of class Mesh
MeshObjects(h) == {id \in DOMAIN h : h[id].cls = "Mesh"}

\* the rows of pts moved by (dx, dy)
Moved(pts, dx, dy) ==
    [k \in DOMAIN pts |-> <<FAdd(pts[k][1], Rat(dx)), FAdd(pts[k][2], Rat(dy))>>]

\* C23: setting coherence_length or translating in place while a mesh exists
\* makes device.mesh a new Mesh object built from all the points and
\* triangles and leaves every Mesh object that existed unmodified; setting
\* coherence_length keeps the points in length units and the triangles
C23_MeshRebuilt ==
    [][(/\ op' \in {"coherence_length", "translate(inplace=True)",
                    "translation.__enter__", "translation.__exit__"}
        /\ heap[args.self].mesh # NoRef)
       => LET self == args.self
              new == heap'[self].mesh
              film == heap[self].film
              dx == heap'[film].points[1][1] - heap[film].points[1][1]
              dy == heap'[film].points[1][2] - heap[film].points[1][2]
          IN  /\ raised' \in {"none", "BodyError"}
              /\ new \in DOMAIN heap' \ DOMAIN heap
              /\ heap'[new].cls = "Mesh"
              /\ \A id \in MeshObjects(heap) : heap'[id] = heap[id]
              /\ Device_triangles(heap', self) = Device_triangles(heap, self)
              /\ heap'[new].x = [k \in DOMAIN heap'[new].x |->
                                    FDiv(Device_points(heap', self).v[k][1],
                                         Rat(coherence_length(heap', self)))]
              /\ Device_points(heap', self).v = Moved(Device_points(heap, self).v, dx, dy)
              /\ op' = "coherence_length" =>
                    Device_points(heap', self) = Device_points(heap, self)]_vars

\* the coherence length was set to 3 on a device with a mesh of 4 points: the
\* mesh of before is still an object of the heap
C23_Witness ==
    /\ op = "coherence_length"
    /\ raised = "none"
    /\ coherence_length(heap, args.self) = 3
    /\ heap[args.self].mesh # NoRef
    /\ Len(heap[heap[args.self].mesh].x) = 4
    /\ \E id \in MeshObjects(heap) :
          /\ id # heap[args.self].mesh
          /\ heap[id].x # heap[heap[args.self].mesh].x

\* C24: copy, scale, rotate, mirror_layer and translate(inplace=False) return
\* a new Device without a mesh and change no object that existed (the
\* polygons, the layer, the voltage points and the mesh of the original); scale
\* and rotate raise TypeError on an origin that is no pair of numbers
C24_NewDevice ==
    [][op' \in {"copy", "scale", "rotate", "mirror_layer", "translate(inplace=False)"}
       => /\ \A id \in DOMAIN heap : heap'[id] = heap[id]
          /\ raised' = "none" \/ (raised' = "TypeError" /\ op' \in {"scale", "rotate"})
          /\ raised' = "none" =>
                /\ ret' \in DOMAIN heap' \ DOMAIN heap
                /\ heap'[ret'].cls = "Device"
                /\ heap'[ret'].mesh = NoRef]_vars

\* a device with a mesh was scaled: the new device has no mesh and another film
C24_Witness ==
    /\ op = "scale"
    /\ raised = "none"
    /\ heap[args.self].mesh # NoRef
    /\ ret # args.self
    /\ heap[ret].mesh = NoRef
    /\ heap[heap[ret].film].points # heap[heap[args.self].film].points
    /\ heap[heap[args.self].film] = Film

\* C25: translate(inplace=True) moves the device itself and returns None;
\* translate(inplace=False) returns the new, translated device
C25_TranslateReturn ==
    [][/\ op' = "translate(inplace=True)" /\ raised' = "none" =>
             /\ ret' = NoRef
             /\ heap'[heap'[args.self].film].points # heap[heap[args.self].film].points
       /\ op' = "translate(inplace=False)" =>
             /\ ret' \in DOMAIN heap' \ DOMAIN heap
             /\ heap'[heap'[ret'].film].points # heap[heap[args.self].film].points]_vars

\* the position pos moved by d = (dx, dy, dz)
ShiftedPosition(pos, d) ==
    [polygons |-> [k \in DOMAIN pos.polygons |->
                     [j \in DOMAIN pos.polygons[k] |->
                        <<pos.polygons[k][j][1] + d[1], pos.polygons[k][j][2] + d[2]>>]],
     z0 |-> pos.z0 + d[3],
     points |-> IF pos.points.none THEN pos.points
                ELSE SomeArray(Moved(pos.points.v, d[1], d[2]))]

\* C26: in the with-block of translation(dx, dy, dz) the device itself is
\* moved by (dx, dy, dz); at the end of the block, whether the body returned or
\* raised, the polygons, layer.z0 and the points of the mesh are those of
\* before the block
C26_TranslationRestores ==
    [][/\ op' = "translation.__enter__" =>
             Position(heap', args.self) = ShiftedPosition(Position(heap, args.self), args'.shift)
       /\ op' = "translation.__exit__" =>
             /\ Position(heap', args.self) = args.before
             /\ raised' \in {"none", "BodyError"}]_vars

\* the body of a block on a device with a mesh raised, and the device is back
C26_Witness ==
    /\ op = "translation.__exit__"
    /\ raised = "BodyError"
    /\ args.shift = <<1, -2, 3>>
    /\ heap[args.self].mesh # NoRef
    /\ Position(heap, args.self) = args.before
    /\ heap[heap[args.self].film] = Film

\* the device has exactly one of source_terminal and drain_terminal
OneTerminal(h, id) == (h[id].source_terminal = NoRef) # (h[id].drain_terminal = NoRef)

\* C30: on a device with exactly one terminal make_mesh and every call of
\* _create_dimensionless_mesh raise ValueError and device.mesh stays as it
\* was; no device with exactly one terminal has a mesh
C30_BothTerminalsOrNone ==
    [][/\ \A id \in DOMAIN heap' :
             (heap'[id].cls = "Device" /\ OneTerminal(heap', id)) => heap'[id].mesh = NoRef
       /\ (args.self # NoRef /\ OneTerminal(heap, args.self)) =>
             /\ LET g == generate_mesh(poly_points(heap, args.self))
                IN  _create_dimensionless_mesh(heap, args.self, g.points, g.triangles).raised
                       = "ValueError"
             /\ op' = "make_mesh" =>
                   /\ raised' = "ValueError"
                   /\ heap'[args.self].mesh = heap[args.self].mesh]_vars

\* make_mesh raised ValueError on a device with a drain terminal only
C30_Witness ==
    /\ op = "make_mesh"
    /\ raised = "ValueError"
    /\ heap[args.self].source_terminal = NoRef
    /\ heap[args.self].drain_terminal # NoRef
    /\ heap[args.self].mesh = NoRef

=============================================================================
